---------------------------- MODULE Spec2Model ----------------------------
(***************************************************************************)
(* A model of the VAULT-3.0 data pipeline: name/identity normalisation and *)
(* the match cascade (scripts/pipeline/match_xml_csv.py), feature          *)
(* extraction and range validation (scripts/pipeline/extract_features.py), *)
(* the integrity audit (scripts/pipeline/data_audit.py) and the gated      *)
(* orchestrator (run_pipeline.py).                                         *)
(*                                                                         *)
(* Text is modelled at character level: a Python str is a tuple of         *)
(* one-character strings, so that split, replace, title and the substring  *)
(* tests of the source are computed as Python computes them.               *)
(***************************************************************************)
EXTENDS Integers, Sequences, FiniteSets, TLC

(***************************************************************************)
(* Python str primitives used by the pipeline scripts.                     *)
(***************************************************************************)
Lowers ==
  <<"a","b","c","d","e","f","g","h","i","j","k","l","m","n","o","p","q","r","s","t","u","v","w","x","y","z">>
Uppers ==
  <<"A","B","C","D","E","F","G","H","I","J","K","L","M","N","O","P","Q","R","S","T","U","V","W","X","Y","Z">>

IsLower(c) == \E i \in 1..Len(Lowers) : Lowers[i] = c

IsUpper(c) == \E i \in 1..Len(Uppers) : Uppers[i] = c

IsCased(c) == IsLower(c) \/ IsUpper(c)

ToUpper(c) ==
  IF IsLower(c) THEN Uppers[CHOOSE i \in 1..Len(Lowers) : Lowers[i] = c] ELSE c

ToLower(c) ==
  IF IsUpper(c) THEN Lowers[CHOOSE i \in 1..Len(Uppers) : Uppers[i] = c] ELSE c

\* str.upper()
upper(s) == [i \in 1..Len(s) |-> ToUpper(s[i])]

\* str.title(): a cased character is upper-cased unless the one before it is cased
title(s) ==
  [i \in 1..Len(s) |->
     IF i > 1 /\ IsCased(s[i-1]) THEN ToLower(s[i]) ELSE ToUpper(s[i])]

IsSpace(c) == c = " "

\* str.strip()
RECURSIVE lstrip(_)
lstrip(s) ==
  IF s # <<>> /\ IsSpace(Head(s)) THEN lstrip(Tail(s)) ELSE s

RECURSIVE rstrip(_)
rstrip(s) ==
  IF s # <<>> /\ IsSpace(s[Len(s)]) THEN rstrip(SubSeq(s, 1, Len(s) - 1)) ELSE s

strip(s) == rstrip(lstrip(s))

\* length of the run of non-blank characters that starts the string
TokLen(s) ==
  IF \E i \in 1..Len(s) : IsSpace(s[i])
    THEN (CHOOSE i \in 1..Len(s) :
            IsSpace(s[i]) /\ \A j \in 1..(i-1) : ~IsSpace(s[j])) - 1
    ELSE Len(s)

\* str.split() with no argument: the list of blank-separated tokens
RECURSIVE split(_)
split(s) ==
  IF s = <<>> THEN <<>>
  ELSE IF IsSpace(Head(s)) THEN split(Tail(s))
  ELSE <<SubSeq(s, 1, TokLen(s))>> \o split(SubSeq(s, TokLen(s) + 1, Len(s)))

\* ' '.join(parts)
RECURSIVE join(_)
join(parts) ==
  IF parts = <<>> THEN <<>>
  ELSE IF Len(parts) = 1 THEN parts[1]
  ELSE parts[1] \o <<" ">> \o join(Tail(parts))

\* reversed(parts)
reversed(parts) == [i \in 1..Len(parts) |-> parts[Len(parts) + 1 - i]]

\* sub in s
contains(s, sub) ==
  \E i \in 1..(Len(s) + 1) :
     /\ i + Len(sub) - 1 <= Len(s)
     /\ SubSeq(s, i, i + Len(sub) - 1) = sub

\* s.replace(old, new), old not empty: non-overlapping, left to right
RECURSIVE replace(_, _, _)
replace(s, old, new) ==
  IF Len(s) < Len(old) THEN s
  ELSE IF SubSeq(s, 1, Len(old)) = old
    THEN new \o replace(SubSeq(s, Len(old) + 1, Len(s)), old, new)
  ELSE <<Head(s)>> \o replace(Tail(s), old, new)

\* s.count(c) for a single character
count(s, c) == Cardinality({i \in 1..Len(s) : s[i] = c})

(***************************************************************************)
(* Name normalisation and variant generation (match_xml_csv.py).           *)
(***************************************************************************)
normalize_name(name) ==
  IF name = <<>> THEN <<>>
  ELSE strip(title(replace(replace(join(split(name)),
                                   <<"-", " ">>, <<"-">>),
                           <<" ", "-">>, <<"-">>)))

suffixes ==
  <<<<"J","r">>, <<"J","r",".">>, <<"S","r">>, <<"S","r",".">>, <<"I","I">>, <<"I","I","I">>, <<"I","V">>, <<"V">>, <<"2","N","d">>, <<"2","N","d",".">>>>

IsSuffix(part) ==
  \/ \E i \in 1..Len(suffixes) : suffixes[i] = part
  \/ \E i \in 1..Len(suffixes) : upper(suffixes[i]) = upper(part)

SelectParts(parts, keep) ==
  LET F[i \in 0..Len(parts)] ==
        IF i = 0 THEN <<>>
        ELSE IF keep[i] THEN Append(F[i-1], parts[i]) ELSE F[i-1]
  IN F[Len(parts)]

\* returns [base, suffix]; suffix = <<>> stands for None
remove_name_suffixes(name) ==
  LET Removed(parts, sufIx) ==
        [base   |-> join(SelectParts(parts, [i \in 1..Len(parts) |-> i \notin sufIx])),
         suffix |-> IF sufIx = {} THEN <<>>
                    ELSE parts[CHOOSE i \in sufIx : \A j \in sufIx : j <= i]]
      Parts(parts) == Removed(parts, {i \in 1..Len(parts) : IsSuffix(parts[i])})
  IN Parts(split(name))

spelling_variations ==
  <<[key |-> <<"R","u","s","s","e","l">>,
      list |-> <<<<"R","u","s","s","e","l","l">>, <<"R","u","s","s","e","l">>>>],
     [key |-> <<"R","u","s","s","e","l","l">>,
      list |-> <<<<"R","u","s","s","e","l","l">>, <<"R","u","s","s","e","l">>>>],
     [key |-> <<"M","i","c","h","e","a","l">>,
      list |-> <<<<"M","i","c","h","a","e","l">>, <<"M","i","c","h","e","a","l">>>>],
     [key |-> <<"M","i","c","h","a","e","l">>,
      list |-> <<<<"M","i","c","h","a","e","l">>, <<"M","i","c","h","e","a","l">>>>],
     [key |-> <<"J","o","n">>,
      list |-> <<<<"J","o","h","n">>, <<"J","o","n">>>>],
     [key |-> <<"J","o","h","n">>,
      list |-> <<<<"J","o","h","n">>, <<"J","o","n">>>>],
     [key |-> <<"S","t","e","p","h","a","n","y">>,
      list |-> <<<<"S","t","e","p","h","a","n","i","e">>, <<"S","t","e","p","h","a","n","y">>>>],
     [key |-> <<"S","t","e","p","h","a","n","i","e">>,
      list |-> <<<<"S","t","e","p","h","a","n","i","e">>, <<"S","t","e","p","h","a","n","y">>>>],
     [key |-> <<"R","o","s","e","a","n","n","a">>,
      list |-> <<<<"R","o","s","a","n","n","a">>, <<"R","o","s","e","a","n","n","a">>>>],
     [key |-> <<"R","o","s","a","n","n","a">>,
      list |-> <<<<"R","o","s","a","n","n","a">>, <<"R","o","s","e","a","n","n","a">>>>],
     [key |-> <<"J","e","n","i","f","e","r">>,
      list |-> <<<<"J","e","n","n","i","f","e","r">>, <<"J","e","n","i","f","e","r">>>>],
     [key |-> <<"J","e","n","n","i","f","e","r">>,
      list |-> <<<<"J","e","n","n","i","f","e","r">>, <<"J","e","n","i","f","e","r">>>>],
     [key |-> <<"B","r","e","n","t","o","n">>,
      list |-> <<<<"B","e","n","t","o","n">>, <<"B","r","e","n","t","o","n">>>>],
     [key |-> <<"B","e","n","t","o","n">>,
      list |-> <<<<"B","e","n","t","o","n">>, <<"B","r","e","n","t","o","n">>>>],
     [key |-> <<"S","c","h","w","a","u","s","c","h">>,
      list |-> <<<<"S","c","h","w","a","s","u","c","h">>, <<"S","c","h","w","a","u","s","c","h">>>>],
     [key |-> <<"S","c","h","w","a","s","u","c","h">>,
      list |-> <<<<"S","c","h","w","a","s","u","c","h">>, <<"S","c","h","w","a","u","s","c","h">>>>]>>

\* lines 152-158: every key contained in the running name adds its spellings,
\* and the running name continues with the first spelling
RECURSIVE SpellingLoop(_, _, _)
SpellingLoop(i, name, variations) ==
  LET Step(e) ==
        IF contains(name, e.key)
          THEN SpellingLoop(i + 1, replace(name, e.key, e.list[1]),
                 variations \cup {replace(name, e.key, e.list[j]) : j \in 1..2})
          ELSE SpellingLoop(i + 1, name, variations)
  IN IF i > Len(spelling_variations) THEN [name |-> name, variations |-> variations]
     ELSE Step(spelling_variations[i])

IsSpellingKey(part) ==
  \E i \in 1..Len(spelling_variations) : spelling_variations[i].key = part

SpellingsOf(part) ==
  {e.list[j] : e \in {spelling_variations[i] : i \in {k \in 1..Len(spelling_variations) :
                                                  spelling_variations[k].key = part}},
               j \in 1..2}

\* lines 160-187: the variants built from the blank-separated parts
PartVariations(parts) ==
  IF Len(parts) < 2 THEN {}
  ELSE {join(parts), join(reversed(parts))}
       \cup (IF Len(parts) > 2
                  /\ (contains(parts[1], <<"-">>) \/ contains(parts[2], <<"-">>))
               THEN {join(<<parts[2], parts[1]>> \o SubSeq(parts, 3, Len(parts)))}
               ELSE {})
       \cup UNION {
              UNION { LET new_parts == [parts EXCEPT ![i] = variant]
                      IN {join(new_parts), join(reversed(new_parts))}
                      : variant \in SpellingsOf(parts[i]) }
              : i \in {k \in 1..Len(parts) : IsSpellingKey(parts[k])} }

create_name_variations(name) ==
  LET Spelled(sp) == sp.variations \cup PartVariations(split(sp.name))
      Stripped(n0, rs) ==
        IF rs.suffix # <<>> THEN Spelled(SpellingLoop(1, rs.base, {n0, rs.base}))
        ELSE Spelled(SpellingLoop(1, n0, {n0}))
      Normalized(n0) == Stripped(n0, remove_name_suffixes(n0))
  IN IF name = <<>> THEN {} ELSE Normalized(normalize_name(name))

(***************************************************************************)
(* Dates of birth (match_xml_csv.py, normalize_dob).                        *)
(***************************************************************************)
Digits == <<"0", "1", "2", "3", "4", "5", "6", "7", "8", "9">>

IsDigit(c) == \E i \in 1..Len(Digits) : Digits[i] = c

\* int(s) for a non-empty string of digits
RECURSIVE ToInt(_)
ToInt(s) ==
  IF s = <<>> THEN 0
  ELSE 10 * ToInt(SubSeq(s, 1, Len(s) - 1))
       + (CHOOSE i \in 1..Len(Digits) : Digits[i] = s[Len(s)]) - 1

IsNumber(s) == s # <<>> /\ \A i \in 1..Len(s) : IsDigit(s[i])

\* s.split(sep) for a single-character separator
RECURSIVE splitOn(_, _)
splitOn(s, sep) ==
  IF \E i \in 1..Len(s) : s[i] = sep
    THEN LET p == CHOOSE i \in 1..Len(s) :
                    s[i] = sep /\ \A j \in 1..(i-1) : s[j] # sep
         IN <<SubSeq(s, 1, p - 1)>> \o splitOn(SubSeq(s, p + 1, Len(s)), sep)
    ELSE <<s>>

IsLeap(y) == (y % 4 = 0 /\ y % 100 # 0) \/ y % 400 = 0

DaysInMonth(y, m) ==
  IF m = 2 THEN (IF IsLeap(y) THEN 29 ELSE 28)
  ELSE IF m \in {4, 6, 9, 11} THEN 30 ELSE 31

IsDate(y, m, d) == m \in 1..12 /\ d \in 1..DaysInMonth(y, m)

\* datetime.toordinal(): days since 0001-01-01
Ordinal(y, m, d) ==
  LET py == y - 1
      before[k \in 0..12] == IF k = 0 THEN 0 ELSE before[k-1] + DaysInMonth(y, k)
  IN py * 365 + (py \div 4) - (py \div 100) + (py \div 400) + before[m - 1] + d

\* datetime.strptime(s, '%Y-%m-%d'): [ok, y, m, d]
strptime(s) ==
  LET Parsed(p) ==
        IF /\ Len(p) = 3
           /\ IsNumber(p[1]) /\ Len(p[1]) = 4
           /\ IsNumber(p[2]) /\ Len(p[2]) \in 1..2
           /\ IsNumber(p[3]) /\ Len(p[3]) \in 1..2
           /\ IsDate(ToInt(p[1]), ToInt(p[2]), ToInt(p[3]))
          THEN [ok |-> TRUE, y |-> ToInt(p[1]), m |-> ToInt(p[2]), d |-> ToInt(p[3])]
          ELSE [ok |-> FALSE]
  IN Parsed(splitOn(s, "-"))

Pad(n, width) ==
  LET F[k \in 0..width] ==
        IF k = 0 THEN <<>>
        ELSE Append(F[k-1], Digits[((n \div (10 ^ (width - k))) % 10) + 1])
  IN F[width]

\* dt.strftime('%Y-%m-%d')
strftime(y, m, d) == Pad(y, 4) \o <<"-">> \o Pad(m, 2) \o <<"-">> \o Pad(d, 2)

\* pd.to_datetime(s, errors='coerce'), for the shapes the roster and the scans
\* use: M/D/YYYY and Y-M-D; anything else, or a date outside the
\* nanosecond-timestamp years, is NaT ([ok |-> FALSE])
to_datetime(s) ==
  LET InRange(r) == IF r.ok /\ r.y \in 1678..2261 THEN r ELSE [ok |-> FALSE]
      Parsed(q) ==
        IF /\ Len(q) = 3
           /\ IsNumber(q[1]) /\ Len(q[1]) \in 1..2
           /\ IsNumber(q[2]) /\ Len(q[2]) \in 1..2
           /\ IsNumber(q[3]) /\ Len(q[3]) = 4
           /\ IsDate(ToInt(q[3]), ToInt(q[1]), ToInt(q[2]))
          THEN InRange([ok |-> TRUE, y |-> ToInt(q[3]), m |-> ToInt(q[1]), d |-> ToInt(q[2])])
          ELSE InRange(strptime(s))
  IN Parsed(splitOn(s, "/"))

\* the result of a call that raises: like NaNText below, a one-element tuple
\* that is no string of characters
Raise == <<"Raise">>

\* A text value that is no str: the NaN pandas gives for an empty roster cell,
\* and None.  Each is a one-element tuple that is no string of characters.
NaNText == <<"NaN">>

NoneText == <<"None">>

\* dob_str is a str, or NaNText
normalize_dob(dob_str) ==
  LET Formatted(d1, dt) ==
        IF Len(d1) = 10 /\ count(d1, "-") = 2 THEN d1
        ELSE IF dt.ok THEN strftime(dt.y, dt.m, dt.d)
        ELSE strip(d1)
      Fixed(d1) == Formatted(d1, to_datetime(d1))
      DatePart(d0) ==
        IF contains(d0, <<"0", "1", "8">>)
          THEN Fixed(replace(replace(d0, <<"/", "0", "1", "8">>, <<"/", "1", "9", "8">>),
                             <<"0", "1", "8">>, <<"1", "9", "8">>))
          ELSE Fixed(d0)
      Tokens(t) == IF t = <<>> THEN Raise ELSE DatePart(t[1])
  IN IF dob_str = <<>> THEN <<>>
     ELSE IF dob_str = NaNText THEN <<"n", "a", "n">>
     ELSE Tokens(split(dob_str))

(***************************************************************************)
(* difflib.SequenceMatcher(None, a, b).ratio() = 2 * M / T, as the pair      *)
(* <<2 * M, T>>: M sums the matching blocks found by taking the longest     *)
(* common block (the earliest in a, then the earliest in b) and recursing   *)
(* to its left and to its right.                                            *)
(***************************************************************************)
\* length of the common run of a[i..ahi] and b[j..bhi]
RECURSIVE RunLen(_, _, _, _, _, _)
RunLen(a, i, ahi, b, j, bhi) ==
  IF i <= ahi /\ j <= bhi /\ a[i] = b[j]
    THEN 1 + RunLen(a, i + 1, ahi, b, j + 1, bhi)
    ELSE 0

RECURSIVE MatchCount(_, _, _, _, _, _)
MatchCount(a, alo, ahi, b, blo, bhi) ==
  LET Around(best) ==
        IF best[3] = 0 THEN 0
        ELSE best[3]
             + MatchCount(a, alo, best[1] - 1, b, blo, best[2] - 1)
             + MatchCount(a, best[1] + best[3], ahi, b, best[2] + best[3], bhi)
      Earliest(starts) ==
        Around(CHOOSE p \in starts :
                 \A q \in starts : p[1] < q[1] \/ (p[1] = q[1] /\ p[2] <= q[2]))
      Longest(runs, n) == Earliest({p \in runs : p[3] = n})
      Runs(runs) == Longest(runs, (CHOOSE p \in runs : \A q \in runs : q[3] <= p[3])[3])
  IN IF alo > ahi \/ blo > bhi THEN 0
     ELSE Runs({<<i, j, RunLen(a, i, ahi, b, j, bhi)>> : i \in alo..ahi, j \in blo..bhi})

ratio(a, b) ==
  IF Len(a) + Len(b) = 0 THEN <<1, 1>>
  ELSE <<2 * MatchCount(a, 1, Len(a), b, 1, Len(b)), Len(a) + Len(b)>>

\* r > s on ratios; r > n/d
RatioGt(r, s) == r[1] * s[2] > s[1] * r[2]

(***************************************************************************)
(* Numbers.  A Python float is [k |-> "num", v |-> n] with n the value in   *)
(* hundredths, or [k |-> "nan"], [k |-> "posinf"], [k |-> "neginf"].  None   *)
(* is the record None.  A raw value handed to float() is a float, or Text   *)
(* (a string that is no number), Empty (the string '') or None.             *)
(***************************************************************************)
Scale == 100

None == [k |-> "None"]

Num(n) == [k |-> "num", v |-> n]

NaN == [k |-> "nan"]

PosInf == [k |-> "posinf"]

NegInf == [k |-> "neginf"]

Text == [k |-> "text"]

\* the empty string '' where a number is expected
Empty == [k |-> "empty"]

IsFloat(x) == x.k \in {"num", "nan", "posinf", "neginf"}

\* a < b on floats (false whenever either side is nan)
FloatLt(a, b) ==
  /\ a.k # "nan" /\ b.k # "nan"
  /\ \/ a.k = "neginf" /\ b.k # "neginf"
     \/ b.k = "posinf" /\ a.k # "posinf"
     \/ a.k = "num" /\ b.k = "num" /\ a.v < b.v

(***************************************************************************)
(* Clinical range validation (extract_features.py).                          *)
(***************************************************************************)
FeatureNames ==
  {"Age", "WTW", "ACD_internal", "ACV", "ACA_global", "Pupil_diameter",
   "TCRP_Km", "TCRP_Astigmatism", "AC_shape_ratio", "SEQ", "SimK_steep",
   "CCT", "BAD_D", "Vault", "Lens_Size"}

\* (min, max) per feature, in hundredths
FEATURE_RANGES ==
  [f \in FeatureNames |->
     CASE f = "Age"              -> <<15 * Scale, 70 * Scale>>
       [] f = "WTW"              -> <<10 * Scale, 14 * Scale>>
       [] f = "ACD_internal"     -> <<2 * Scale, 5 * Scale>>
       [] f = "ACV"              -> <<100 * Scale, 400 * Scale>>
       [] f = "ACA_global"       -> <<20 * Scale, 70 * Scale>>
       [] f = "Pupil_diameter"   -> <<2 * Scale, 8 * Scale>>
       [] f = "TCRP_Km"          -> <<35 * Scale, 55 * Scale>>
       [] f = "TCRP_Astigmatism" -> <<0, 10 * Scale>>
       [] f = "AC_shape_ratio"   -> <<40 * Scale, 200 * Scale>>
       [] f = "SEQ"              -> <<(-25) * Scale, 5 * Scale>>
       [] f = "SimK_steep"       -> <<38 * Scale, 52 * Scale>>
       [] f = "CCT"              -> <<400 * Scale, 700 * Scale>>
       [] f = "BAD_D"            -> <<(-1) * Scale, 15 * Scale>>
       [] f = "Vault"            -> <<50 * Scale, 2000 * Scale>>
       [] f = "Lens_Size"        -> <<11 * Scale, 14 * Scale>>]

SENTINEL == Num((-9999) * Scale)

\* the same test with the bounds themselves excluded
OutOfRangeClosed(val, min_val, max_val) ==
  ~FloatLt(Num(min_val), val) \/ ~FloatLt(val, Num(max_val))

\* the range test of line 64
OutOfRange(val, min_val, max_val) ==
  FloatLt(val, Num(min_val)) \/ FloatLt(Num(max_val), val)

\* returns [is_valid, cleaned, warning]; warning = None, or the kind of message
validate_value(value, feature_name) ==
  IF ~IsFloat(value)
    THEN [is_valid |-> FALSE, cleaned |-> None,
          warning |-> [feature |-> feature_name, kind |-> "not numeric"]]
  ELSE IF value = SENTINEL
    THEN [is_valid |-> FALSE, cleaned |-> None,
          warning |-> [feature |-> feature_name, kind |-> "sentinel"]]
  ELSE IF value = NaN
    THEN [is_valid |-> FALSE, cleaned |-> None,
          warning |-> [feature |-> feature_name, kind |-> "missing"]]
  ELSE IF /\ feature_name \in DOMAIN FEATURE_RANGES
          /\ OutOfRange(value, FEATURE_RANGES[feature_name][1],
                        FEATURE_RANGES[feature_name][2])
    THEN [is_valid |-> FALSE, cleaned |-> value,
          warning |-> [feature |-> feature_name, kind |-> "outside range"]]
  ELSE [is_valid |-> TRUE, cleaned |-> value, warning |-> None]

(***************************************************************************)
(* The roster index (load_csv_data, load_csv_with_seq).                      *)
(*                                                                         *)
(* A roster row is a record of its cells: NAME, DOB, Eye and Exchange are   *)
(* text (NaNText for an empty cell), the sizes, vaults, powers, Sphere and  *)
(* Cyl are floats (NaN for an empty cell).  The index is the Python dict as *)
(* a function from keys <<name variant, dob, eye>> to [entry, block]: entry *)
(* is the data_entry written last under the key, block the number of the    *)
(* row that inserted the key first.  A dict enumerates its keys in order of *)
(* first insertion, so keys of a lower block come first; the order inside   *)
(* a block is the enumeration order of a set of strings, which the hash     *)
(* seed of the interpreter decides.  The field row of an entry records the  *)
(* roster row the entry was built from.                                     *)
(***************************************************************************)
notna(x) == x # NaN

\* str(x) of a text cell
str(x) == IF x = NaNText THEN <<"n", "a", "n">> ELSE x

YES == <<"Y", "E", "S">>

IsExchange(row) == upper(strip(str(row.Exchange))) = YES

\* the mutant of OutcomeSource: the original values whatever the flag
OutcomeSourceOriginal(row) == [lens_size |-> row.ICL_Size, vault |-> row.Vault]

\* lines 255-260: the exchanged size and vault supersede the original ones
OutcomeSource(row) ==
  IF IsExchange(row)
    THEN [lens_size |-> row.Exchanged_Size, vault |-> row.Exchanged_Vault]
    ELSE [lens_size |-> row.ICL_Size, vault |-> row.Vault]

\* lines 263-277 of match_xml_csv.py
DataEntry(row, i) ==
  [row |-> i,
   name |-> normalize_name(row.NAME),
   dob |-> normalize_dob(row.DOB),
   eye |-> upper(strip(str(row.Eye))),
   lens_size |-> IF notna(OutcomeSource(row).lens_size)
                   THEN OutcomeSource(row).lens_size ELSE Empty,
   vault |-> IF notna(OutcomeSource(row).vault) THEN OutcomeSource(row).vault ELSE Empty,
   exchange |-> IsExchange(row),
   original_lens_size |-> row.ICL_Size,
   original_vault |-> row.Vault,
   exchanged_lens_size |-> row.Exchanged_Size,
   exchanged_vault |-> row.Exchanged_Vault,
   icl_power |-> row.ICL_Power]

\* lines 312-345 of extract_features.py; Sphere and Cyl are in hundredths and
\* the rosters of this model hold an even Cyl, so that Cyl / 2 is exact
DataEntrySeq(row, i) ==
  [row |-> i,
   name |-> normalize_name(row.NAME),
   dob |-> normalize_dob(row.DOB),
   eye |-> upper(strip(str(row.Eye))),
   lens_size |-> IF notna(OutcomeSource(row).lens_size)
                   THEN OutcomeSource(row).lens_size ELSE None,
   vault |-> IF notna(OutcomeSource(row).vault) THEN OutcomeSource(row).vault ELSE None,
   exchange |-> IsExchange(row),
   seq |-> IF notna(row.Sphere) /\ notna(row.Cyl)
             THEN Num(row.Sphere.v + (row.Cyl.v \div 2))
           ELSE IF notna(row.Sphere) THEN row.Sphere ELSE None,
   icl_power |-> LET p == IF IsExchange(row) THEN row.Exchanged_Power ELSE row.ICL_Power
                 IN IF notna(p) THEN p ELSE None]

\* a row whose NAME cell is empty (NaN has no split) or whose DOB is blank
\* (split()[0] of an all-blank string) raises inside the loader's try
RowRaises(row) == row.NAME = NaNText \/ normalize_dob(row.DOB) = Raise

\* the loop with an assignment that keeps the entry a key already has
RECURSIVE BuildLookupFirstWins(_, _, _)
BuildLookupFirstWins(entries, i, lookup) ==
  LET Insert(e, keys) ==
        BuildLookupFirstWins(entries, i + 1,
          [k \in DOMAIN lookup \cup keys |->
             IF k \in DOMAIN lookup THEN lookup[k] ELSE [entry |-> e, block |-> i]])
      Row(e) == Insert(e, {<<v, e.dob, e.eye>> : v \in create_name_variations(e.name)})
  IN IF i > Len(entries) THEN lookup ELSE Row(entries[i])

\* the loop over the rows: lookup[key] = data_entry for every name variant
RECURSIVE BuildLookup(_, _, _)
BuildLookup(entries, i, lookup) ==
  LET Insert(e, keys) ==
        BuildLookup(entries, i + 1,
          [k \in DOMAIN lookup \cup keys |->
             IF k \in keys
               THEN [entry |-> e,
                     block |-> IF k \in DOMAIN lookup THEN lookup[k].block ELSE i]
               ELSE lookup[k]])
      Row(e) == Insert(e, {<<v, e.dob, e.eye>> : v \in create_name_variations(e.name)})
  IN IF i > Len(entries) THEN lookup ELSE Row(entries[i])

\* [ok |-> FALSE] stands for the None returned when loading fails
load_csv_data(rows) ==
  IF \E i \in 1..Len(rows) : RowRaises(rows[i]) THEN [ok |-> FALSE]
  ELSE [ok |-> TRUE, lookup |-> BuildLookup([i \in 1..Len(rows) |-> DataEntry(rows[i], i)], 1, <<>>)]

load_csv_with_seq(rows) ==
  IF \E i \in 1..Len(rows) : RowRaises(rows[i]) THEN [ok |-> FALSE]
  ELSE [ok |-> TRUE, lookup |-> BuildLookup([i \in 1..Len(rows) |-> DataEntrySeq(rows[i], i)], 1, <<>>)]

(***************************************************************************)
(* The match cascade of match_xml_to_csv (lines 328-483).  Each strategy    *)
(* yields the set of keys it can stop at, over all enumeration orders of    *)
(* the set of name variants and of the keys inside a block of the index;    *)
(* several keys in the set mean the hash seed decides.                      *)
(***************************************************************************)
\* the keys among ks that the dict enumerates first
FirstInDictOrder(lookup, ks) ==
  {k \in ks : \A k2 \in ks : lookup[k].block <= lookup[k2].block}

\* lines 342-348
ExactKeys(lookup, variations, dob, eye) ==
  {<<v, dob, eye>> : v \in variations} \cap DOMAIN lookup

\* lines 351-361
NameDobKeys(lookup, variations, dob) ==
  UNION {FirstInDictOrder(lookup, {k \in DOMAIN lookup : k[1] = v /\ k[2] = dob})
         : v \in variations}

\* lines 365-377
NameOnlyKeys(lookup, variations) ==
  UNION {FirstInDictOrder(lookup, {k \in DOMAIN lookup : k[1] = v}) : v \in variations}

\* the best ratio of a roster name against the variants
BestRatio(variations, csv_name) ==
  LET Best(rs) == CHOOSE r \in rs : \A r2 \in rs : ~RatioGt(r2, r)
  IN Best({ratio(upper(v), upper(csv_name)) : v \in variations})

\* the first key in dict order whose ratio is the highest of cand, if that
\* ratio exceeds num/den
BestKeys(lookup, variations, cand, num, den) ==
  LET Top(top) ==
        IF \E p \in top : RatioGt(p[2], <<num, den>>)
          THEN FirstInDictOrder(lookup, {k \in cand : \E p \in top : p[1] = k[1]})
          ELSE {}
      Scored(scored) == Top({p \in scored : \A q \in scored : ~RatioGt(q[2], p[2])})
  IN IF cand = {} \/ variations = {} THEN {}
     ELSE Scored({<<n, BestRatio(variations, n)>> : n \in {k[1] : k \in cand}})

\* lines 380-400
FuzzyNameKeys(lookup, variations, dob) ==
  IF dob = <<>> THEN {}
  ELSE BestKeys(lookup, variations, {k \in DOMAIN lookup : k[2] = dob}, 8, 10)

DobDiff(a, b) ==
  LET Abs(d) == IF d < 0 THEN -d ELSE d
  IN Abs(Ordinal(a.y, a.m, a.d) - Ordinal(b.y, b.m, b.d))

DOB_TOLERANCE_DAYS == 7

\* lines 405-439
FuzzyDobKeys(lookup, variations, dob) ==
  IF dob = <<>> \/ ~strptime(dob).ok THEN {}
  ELSE BestKeys(lookup, variations,
         {k \in DOMAIN lookup :
            /\ strptime(k[2]).ok
            /\ DobDiff(strptime(dob), strptime(k[2])) \in 1..DOB_TOLERANCE_DAYS},
         9, 10)

\* (first_name, surname) of a name, surname first or first name first
NameSplit(parts, order_reversed) ==
  IF order_reversed
    THEN [first |-> parts[Len(parts)], surname |-> join(SubSeq(parts, 1, Len(parts) - 1))]
    ELSE [first |-> parts[1], surname |-> join(Tail(parts))]

\* lines 471-473
PartialMatch(n, c) ==
  /\ n.first = c.first
  /\ \/ contains(c.surname, n.surname)
     \/ contains(n.surname, c.surname)
     \/ split(n.surname)[1] = split(c.surname)[1]

\* lines 444-483
PartialSurnameKeys(lookup, variations) ==
  LET Hits(csv, parts, o) ==
        {c[1] : c \in {d \in csv :
                         /\ Len(d[2]) >= 2
                         /\ \E co \in BOOLEAN :
                               PartialMatch(NameSplit(parts, o), NameSplit(d[2], co))}}
      First(surname_first, first_name_first) ==
        IF surname_first # {} THEN FirstInDictOrder(lookup, surname_first)
        ELSE FirstInDictOrder(lookup, first_name_first)
      Search(csv) ==
        UNION {First(Hits(csv, parts, FALSE), Hits(csv, parts, TRUE))
               : parts \in {p \in {split(w) : w \in variations} : Len(p) >= 2}}
  IN Search({<<k, split(k[1])>> : k \in DOMAIN lookup})

NoMatch == [matched |-> FALSE, strategy |-> "none"]

\* results whose vault may come from the entry of any other key
MatchesMixed(lookup, ks, strategy) ==
  {[matched |-> TRUE, key |-> k,
    entry |-> [lookup[k].entry EXCEPT !.vault = lookup[k2].entry.vault],
    strategy |-> strategy]
   : k \in ks, k2 \in DOMAIN lookup}

Matches(lookup, ks, strategy) ==
  {[matched |-> TRUE, key |-> k, entry |-> lookup[k].entry, strategy |-> strategy]
   : k \in ks}

\* the results the cascade can return for a scan identity (dob normalised,
\* eye upper-cased); the first strategy that finds a key decides
MatchCascade(lookup, full_name, dob, eye) ==
  LET First(exact, name_dob, name_only, fuzzy_name, fuzzy_dob, partial) ==
        IF exact # {} THEN Matches(lookup, exact, "exact")
        ELSE IF name_dob # {} THEN Matches(lookup, name_dob, "name_dob_only")
        ELSE IF name_only # {} THEN Matches(lookup, name_only, "name_only")
        ELSE IF fuzzy_name # {} THEN Matches(lookup, fuzzy_name, "fuzzy_name")
        ELSE IF fuzzy_dob # {} THEN Matches(lookup, fuzzy_dob, "fuzzy_dob")
        ELSE IF partial # {} THEN Matches(lookup, partial, "partial_surname")
        ELSE {NoMatch}
      Cascade(vs) ==
        First(ExactKeys(lookup, vs, dob, eye), NameDobKeys(lookup, vs, dob),
              NameOnlyKeys(lookup, vs), FuzzyNameKeys(lookup, vs, dob),
              FuzzyDobKeys(lookup, vs, dob), PartialSurnameKeys(lookup, vs))
  IN Cascade(create_name_variations(full_name))

(***************************************************************************)
(* The per-scan linkage step of extract_all_features (lines 392-474).       *)
(***************************************************************************)
\* def create_name_variations(name): the parameters the function accepts
CreateNameVariationsParams == {"name"}

\* a call create_name_variations(name, **kwargs): Python raises TypeError for
\* a keyword the signature does not declare
CallCreateNameVariations(name, kwargs) ==
  IF kwargs \subseteq CreateNameVariationsParams
    THEN [ok |-> TRUE, variations |-> create_name_variations(name)]
    ELSE [ok |-> FALSE, error |-> "TypeError"]

\* lines 405-470: exact, name + dob, fuzzy name, fuzzy dob
ExtractCascade(lookup, vs, dob, eye) ==
  LET First(exact, name_dob, fuzzy_name, fuzzy_dob) ==
        IF exact # {} THEN Matches(lookup, exact, "exact")
        ELSE IF name_dob # {} THEN Matches(lookup, name_dob, "name_dob_only")
        ELSE IF fuzzy_name # {} THEN Matches(lookup, fuzzy_name, "fuzzy_name")
        ELSE IF fuzzy_dob # {} THEN Matches(lookup, fuzzy_dob, "fuzzy_dob")
        ELSE {NoMatch}
  IN First(ExactKeys(lookup, vs, dob, upper(eye)), NameDobKeys(lookup, vs, dob),
           FuzzyNameKeys(lookup, vs, dob), FuzzyDobKeys(lookup, vs, dob))

\* lines 392-474 for features with identity (name, dob, eye); NoneText is a
\* field that was never set.  The results: "skipped" (continue), "raised"
\* (the exception leaves extract_all_features), or a cascade result
ExtractLink(lookup, name, dob, eye) ==
  LET Linked(call) ==
        IF ~call.ok THEN {[k |-> "raised", error |-> call.error]}
        ELSE {[k |-> "linked", result |-> r]
              : r \in ExtractCascade(lookup, call.variations, dob, eye)}
  IN IF name \in {NoneText, <<>>} \/ dob \in {NoneText, <<>>} \/ eye \in {NoneText, <<>>}
       THEN {[k |-> "skipped"]}
     ELSE Linked(CallCreateNameVariations(name, {"assume_surname_first"}))

(***************************************************************************)
(* State.  Each specification below exercises one part of the pipeline and  *)
(* leaves the variables of the other parts at their idle values.            *)
(***************************************************************************)
VARIABLES
  vIn,       \* validate_value: the call's arguments [value, feature]
  vOut,      \* validate_value: the returned triple, or Idle before the call
  roster,    \* the rows of the roster CSV
  scanId,    \* a scan's identity [surname, name, dob, eye] as read from its file
  lookup,    \* the result of load_csv_data, or Idle
  lookupSeq, \* the result of load_csv_with_seq, or Idle
  match1,    \* the cascade result of match_xml_to_csv for scanId, or Idle
  match2,    \* the result of a second invocation on the same inputs, or Idle
  link,      \* the result of the linkage step of extract_all_features, or Idle
  doc,       \* a scan file as a document [parses, sections], or Idle
  features,  \* the result of extract_xml_features for doc, or Idle
  pc,        \* run_pipeline.main: the step about to run, or "exit"
  halt,      \* [code, at, failed]: the exit code, the step that ended the run and
             \* whether that step failed (a subprocess with a non-zero code, a
             \* preflight that fails, a gate that trips), or Idle
  started,   \* the steps this run has started
  xmlDir,    \* the files of the scan directory 'XML files'
  images,    \* data/images holds a ZIP or an INI file
  files,     \* the tables of data/processed, by path
  matchRun,  \* match_xml_to_csv: its lists and early returns in this run, or Idle
  extractRun \* extract_all_features: its rows and early returns in this run, or Idle

Idle == [k |-> "idle"]

validateVars == <<vIn, vOut>>

matchVars ==
  <<roster, scanId, lookup, lookupSeq, match1, match2, link, doc, features>>

pipeVars == <<pc, halt, started, xmlDir, images, files, matchRun, extractRun>>

vars == <<validateVars, matchVars, pipeVars>>

ValidateIdle == vIn = Idle /\ vOut = Idle

MatchIdle ==
  /\ roster = <<>> /\ scanId = Idle /\ lookup = Idle /\ lookupSeq = Idle
  /\ match1 = Idle /\ match2 = Idle /\ link = Idle
  /\ doc = Idle /\ features = Idle

PipeIdle ==
  /\ pc = "idle" /\ halt = Idle /\ started = {} /\ xmlDir = {} /\ images = FALSE
  /\ files = Idle /\ matchRun = Idle /\ extractRun = Idle

(***************************************************************************)
(* SpecValidate: validate_value applied to every (value, feature) of a grid *)
(* that holds, for every feature, its bounds and their neighbours.          *)
(***************************************************************************)
BoundaryValues ==
  UNION {{FEATURE_RANGES[f][1] - 1, FEATURE_RANGES[f][1],
          FEATURE_RANGES[f][2], FEATURE_RANGES[f][2] + 1} : f \in FeatureNames}

ValidateInputs ==
  [value : {Num(n) : n \in BoundaryValues \cup {1180, 900}}
             \cup {SENTINEL, NaN, PosInf, NegInf, Text, None},
   feature : FeatureNames \cup {"ICL_Power"}]

InitValidate ==
  /\ vIn \in ValidateInputs
  /\ vOut = Idle
  /\ MatchIdle
  /\ PipeIdle

Validate ==
  /\ vOut = Idle
  /\ vOut' = validate_value(vIn.value, vIn.feature)
  /\ UNCHANGED <<vIn, matchVars, pipeVars>>

NextValidate == Validate

SpecValidate == InitValidate /\ [][NextValidate]_vars

(***************************************************************************)
(* SpecMatch: the roster index and the match cascade on every roster of at  *)
(* most MaxRows rows of RosterRows and every scan identity of ScanIds.      *)
(* The roster holds two rows that share a name variant, a date of birth and *)
(* an eye, rows that differ from a scan in the eye, in the date of birth    *)
(* and in the spelling, and a compound surname.                             *)
(***************************************************************************)
MaxRows == 2

RosterRows ==
  <<[NAME |-> <<"L","e","e"," ","A","n","n"," ","J","r">>,
      DOB |-> <<"1","9","9","9","-","0","5","-","0","2">>, Eye |-> <<"O","D">>, Exchange |-> <<"N","O">>,
      ICL_Size |-> Num(1260), Vault |-> Num(42000), Exchanged_Size |-> NaN, Exchanged_Vault |-> NaN,
      ICL_Power |-> Num(-850), Exchanged_Power |-> NaN, Sphere |-> Num(-800), Cyl |-> Num(-50)],
   [NAME |-> <<"A","n","n"," ","L","e","e">>,
      DOB |-> <<"1","9","9","9","-","0","5","-","0","2">>, Eye |-> <<"O","D">>, Exchange |-> <<"Y","E","S">>,
      ICL_Size |-> Num(1260), Vault |-> Num(50000), Exchanged_Size |-> Num(1320), Exchanged_Vault |-> Num(30000),
      ICL_Power |-> Num(-900), Exchanged_Power |-> Num(-950), Sphere |-> Num(-800), Cyl |-> NaN],
   [NAME |-> <<"l","e","e"," "," ","a","n","n","e">>,
      DOB |-> <<"1","9","9","9","-","0","5","-","0","5">>, Eye |-> <<" ","o","s"," ">>, Exchange |-> <<"y","e","s">>,
      ICL_Size |-> Num(1210), Vault |-> Num(90000), Exchanged_Size |-> NaN, Exchanged_Vault |-> Num(61000),
      ICL_Power |-> NaN, Exchanged_Power |-> NaN, Sphere |-> NaN, Cyl |-> NaN],
   [NAME |-> <<"K","i","m"," ","L","e","e","-","P","a","r","k">>,
      DOB |-> <<"5","/","2","/","1","9","9","9">>, Eye |-> <<"O","D">>, Exchange |-> NaNText,
      ICL_Size |-> Num(1370), Vault |-> NaN, Exchanged_Size |-> Num(1320), Exchanged_Vault |-> Num(70000),
      ICL_Power |-> NaN, Exchanged_Power |-> NaN, Sphere |-> NaN, Cyl |-> NaN],
   [NAME |-> <<"P","a","r","k",","," ","K","i","m">>,
      DOB |-> <<"1","9","9","9","-","0","5","-","0","2">>, Eye |-> <<"O","S">>, Exchange |-> <<" ","Y","e","s"," ">>,
      ICL_Size |-> Num(1260), Vault |-> Num(20000), Exchanged_Size |-> Num(1320), Exchanged_Vault |-> Num(55000),
      ICL_Power |-> Num(-700), Exchanged_Power |-> NaN, Sphere |-> Num(-650), Cyl |-> NaN]>>

ScanIds ==
  <<[surname |-> <<"L","e","e">>, name |-> <<"A","n","n"," ","J","r">>,
      dob |-> <<"1","9","9","9","-","0","5","-","0","2">>, eye |-> <<"O","D">>],
   [surname |-> <<"L","e","e">>, name |-> <<"A","n","n">>,
      dob |-> <<"1","9","9","9","-","0","5","-","0","2">>, eye |-> <<>>],
   [surname |-> <<"L","e","e">>, name |-> <<"A","n","n">>,
      dob |-> <<"2","0","0","1","-","0","1","-","0","1">>, eye |-> <<"o","d">>],
   [surname |-> <<"L","e","e">>, name |-> <<"A","n","n","a">>,
      dob |-> <<"1","9","9","9","-","0","5","-","0","5">>, eye |-> <<"O","S">>],
   [surname |-> <<"K","i","m">>, name |-> <<"L","e","e">>,
      dob |-> <<"1","9","9","9","-","0","5","-","0","2">>, eye |-> <<"O","D">>],
   [surname |-> <<"Z","e","d">>, name |-> <<"A","l">>,
      dob |-> <<"1","9","9","9","-","0","5","-","0","2">>, eye |-> <<"O","D">>],
   [surname |-> <<>>, name |-> <<>>,
      dob |-> <<>>, eye |-> <<"O","D">>]>>

Rosters ==
  UNION {[1..n -> {RosterRows[i] : i \in DOMAIN RosterRows}] : n \in 0..MaxRows}

\* lines 55-56 of match_xml_csv.py: surname first, 'Unknown' for no name at all
full_name(id) ==
  LET parts == SelectParts(<<id.surname, id.name>>,
                           <<id.surname # <<>>, id.name # <<>>>>)
  IN IF strip(join(parts)) # <<>> THEN strip(join(parts))
     ELSE <<"U", "n", "k", "n", "o", "w", "n">>

\* lines 131-136 of extract_features.py
FeatureName(id) ==
  IF id.surname # <<>> /\ id.name # <<>> THEN id.surname \o <<" ">> \o id.name
  ELSE IF id.surname # <<>> THEN id.surname
  ELSE IF id.name # <<>> THEN id.name
  ELSE NoneText

InitMatch ==
  /\ roster \in Rosters
  /\ scanId \in {ScanIds[i] : i \in DOMAIN ScanIds}
  /\ lookup = Idle /\ lookupSeq = Idle
  /\ match1 = Idle /\ match2 = Idle /\ link = Idle
  /\ doc = Idle /\ features = Idle
  /\ ValidateIdle
  /\ PipeIdle

LoadCsvData ==
  /\ lookup = Idle
  /\ lookup' = load_csv_data(roster)
  /\ UNCHANGED <<roster, scanId, lookupSeq, match1, match2, link, doc, features,
               validateVars, pipeVars>>

LoadCsvWithSeq ==
  /\ scanId = Idle \/ match2 # Idle \/ (lookup # Idle /\ ~lookup.ok)
  /\ lookupSeq = Idle
  /\ lookupSeq' = load_csv_with_seq(roster)
  /\ UNCHANGED <<roster, scanId, lookup, match1, match2, link, doc, features,
               validateVars, pipeVars>>

\* lines 328-483 of match_xml_csv.py for one scan
MatchScan ==
  /\ lookup # Idle /\ lookup.ok
  /\ match1 = Idle
  /\ match1' \in MatchCascade(lookup.lookup, full_name(scanId),
                              normalize_dob(strip(scanId.dob)), upper(scanId.eye))
  /\ UNCHANGED <<roster, scanId, lookup, lookupSeq, match2, link, doc, features,
               validateVars, pipeVars>>

\* a second invocation of the cascade on the same index and identity
MatchScanAgain ==
  /\ match1 # Idle
  /\ match2 = Idle
  /\ match2' \in MatchCascade(lookup.lookup, full_name(scanId),
                              normalize_dob(strip(scanId.dob)), upper(scanId.eye))
  /\ UNCHANGED <<roster, scanId, lookup, lookupSeq, match1, link, doc, features,
               validateVars, pipeVars>>

\* lines 392-474 of extract_features.py for one scan
ExtractScan ==
  /\ lookupSeq # Idle /\ lookupSeq.ok
  /\ lookupSeq.lookup # <<>>
  /\ link = Idle
  /\ link' \in ExtractLink(lookupSeq.lookup, FeatureName(scanId),
                           normalize_dob(strip(scanId.dob)), strip(scanId.eye))
  /\ UNCHANGED <<roster, scanId, lookup, lookupSeq, match1, match2, doc, features,
               validateVars, pipeVars>>

NextMatch ==
  \/ LoadCsvData
  \/ LoadCsvWithSeq
  \/ MatchScan
  \/ MatchScanAgain
  \/ ExtractScan

SpecMatch == InitMatch /\ [][NextMatch]_vars

(***************************************************************************)
(* SpecIndex: the two loaders alone, in either order, on every roster of at *)
(* most MaxRows rows of RosterRows.                                         *)
(***************************************************************************)
InitIndex ==
  /\ roster \in Rosters
  /\ scanId = Idle
  /\ lookup = Idle /\ lookupSeq = Idle
  /\ match1 = Idle /\ match2 = Idle /\ link = Idle
  /\ doc = Idle /\ features = Idle
  /\ ValidateIdle
  /\ PipeIdle

NextIndex ==
  \/ LoadCsvData
  \/ LoadCsvWithSeq

SpecIndex == InitIndex /\ [][NextIndex]_vars

(***************************************************************************)
(* Spec: one run of the gated orchestrator, main of run_pipeline.py, over   *)
(* a scan directory of at most MaxFiles files of ScanFiles, a roster that   *)
(* is empty or holds the two rows that share the name variant, the date of  *)
(* birth and the eye of the first scan, and a data/processed directory that *)
(* is empty or holds the tables of an earlier run.  A file on disk is a     *)
(* record [exists, rows, fresh]: rows is the set of its data rows and fresh *)
(* says that it was written during this run.                                *)
(* The exit code of a subprocess that fails to run and the outcome of the   *)
(* preflight test on the working directory are inputs of the run.  The      *)
(* steps process the scans in sorted order; the tables are modelled as sets *)
(* of rows, so that the order of the rows is left out.                      *)
(***************************************************************************)
MaxFiles == 2

\* lines 25-33 of run_pipeline.py, lines 15-29 of data_audit.py and the
\* literals of lines 166, 187, 203 of data_audit.py
Path ==
  [missing_xml |-> "data/processed/missing_xml_ids.csv",
   nonstandard_xml |-> "data/processed/nonstandard_xml_filenames.csv",
   duplicate_xml |-> "data/processed/duplicate_xml_ids.csv",
   unmatched |-> "data/processed/unmatched_xmls.csv",
   failed |-> "data/processed/failed_extractions.csv",
   missing_outcomes |-> "data/processed/missing_outcomes.csv",
   flagged |-> "data/processed/flagged_incomplete_cases.csv",
   matched |-> "data/processed/matched_patients.csv",
   training |-> "data/processed/training_data.csv"]

\* DataFrame(rows).to_csv(path): the file is created or overwritten
to_csv(fs, path, rows) ==
  [fs EXCEPT ![path] = [exists |-> TRUE, rows |-> rows, fresh |-> TRUE]]

\* the scan files: a standard name with a full identity, a standard name
\* whose document has no eye, a document that does not parse, a document
\* without patient names, a non-standard name that repeats an ID, and an
\* upper-case extension on a scan of a patient the roster does not hold
ScanFiles ==
  {[name |-> <<"0", "0", "0", "0", "0", "0", "0", "1", ".", "x", "m", "l">>, parses |-> TRUE, id |-> ScanIds[1], measured |-> TRUE],
   [name |-> <<"0", "0", "0", "0", "0", "0", "0", "2", ".", "x", "m", "l">>, parses |-> TRUE, id |-> ScanIds[2], measured |-> TRUE],
   [name |-> <<"0", "0", "0", "0", "0", "0", "0", "3", ".", "x", "m", "l">>, parses |-> FALSE,
      id |-> [surname |-> <<>>, name |-> <<>>, dob |-> <<>>, eye |-> <<>>], measured |-> FALSE],
   [name |-> <<"0", "0", "0", "0", "0", "0", "0", "3", ".", "x", "m", "l">>, parses |-> TRUE, id |-> ScanIds[7], measured |-> FALSE],
   [name |-> <<"0", "0", "0", "0", "0", "0", "0", "1", "_", "b", ".", "x", "m", "l">>, parses |-> TRUE, id |-> ScanIds[2], measured |-> FALSE],
   [name |-> <<"0", "0", "0", "0", "0", "0", "0", "2", ".", "X", "M", "L">>, parses |-> TRUE, id |-> ScanIds[6], measured |-> TRUE]}

\* a directory holds one file per name
XmlDirs ==
  {d \in SUBSET ScanFiles :
     Cardinality(d) <= MaxFiles /\ \A f, g \in d : f.name = g.name => f = g}

\* data/processed before the run: empty; the tables of an earlier run whose
\* rows are complete; the tables of an earlier run with a row that has both
\* outcomes and lacks a feature (flagged) and a row without outcomes, and
\* with a matched table that lists a scan which is no longer on disk
PriorDisks ==
  LET EmptyDisk ==
        [p \in {Path[k] : k \in DOMAIN Path} |->
           [exists |-> FALSE, rows |-> {}, fresh |-> FALSE]]
      Old(rows) == [exists |-> TRUE, rows |-> rows, fresh |-> FALSE]
      Row(file, outcome, complete) ==
        [XML_File |-> file, Name |-> <<"L", "e", "e", " ", "A", "n", "n">>,
         Eye |-> <<"O", "D">>, Lens_Size |-> outcome, Vault |-> outcome,
         features |-> complete]
  IN {EmptyDisk,
      [EmptyDisk EXCEPT
         ![Path.training] = Old({Row(<<"0", "0", "0", "0", "0", "0", "0", "1", ".", "x", "m", "l">>, Num(1260), TRUE)})],
      [EmptyDisk EXCEPT
         ![Path.training] = Old({Row(<<"0", "0", "0", "0", "0", "0", "0", "1", ".", "x", "m", "l">>, Num(1260), FALSE),
                                 Row(<<"0", "0", "0", "0", "0", "0", "0", "2", ".", "x", "m", "l">>, NaN, TRUE)}),
         ![Path.flagged] = Old({<<"0", "0", "0", "0", "0", "0", "0", "1", ".", "x", "m", "l">>}),
         ![Path.matched] = Old({[XML_File |-> file, Name |-> <<"L", "e", "e", " ", "A", "n", "n">>,
                                 Eye |-> <<"O", "D">>, Lens_Size |-> Num(1260),
                                 Vault |-> Num(42000)]
                                : file \in {<<"0", "0", "0", "0", "0", "0", "0", "1", ".", "x", "m", "l">>,
                                            <<"0", "0", "0", "0", "0", "0", "0", "4", ".", "x", "m", "l">>}})]}

endswith(s, suffix) ==
  /\ Len(s) >= Len(suffix)
  /\ SubSeq(s, Len(s) - Len(suffix) + 1, Len(s)) = suffix

\* line 34 of data_audit.py, line 311 of match_xml_csv.py:
\* f.lower().endswith('.xml')
IsXmlFile(name) == endswith([i \in 1..Len(name) |-> ToLower(name[i])], <<".", "x", "m", "l">>)

\* os.path.splitext(name)[0]: up to the last dot that follows a character
\* other than a dot
splitext(name) ==
  LET dots == {i \in 1..Len(name) :
                 name[i] = "." /\ \E j \in 1..(i - 1) : name[j] # "."}
  IN IF dots = {} THEN name
     ELSE SubSeq(name, 1, (CHOOSE i \in dots : \A j \in dots : j <= i) - 1)

\* a stem of digits of any length
is_standard_filename_any_length(name) ==
  splitext(name) # <<>> /\ \A i \in 1..Len(splitext(name)) : IsDigit(splitext(name)[i])

\* re.fullmatch(r"\d{8}", stem)
is_standard_filename(name) ==
  Len(splitext(name)) = 8 /\ \A i \in 1..8 : IsDigit(splitext(name)[i])

\* lines 54-73 of data_audit.py; duplicates is the set of pairs
\* <<num, files>> of the dictionary
analyze_xml_filenames(xml_list) ==
  LET Prefix(stem) ==  \* re.match(r"^(\d+)", stem): the leading digits
        SubSeq(stem, 1, CHOOSE k \in 0..Len(stem) :
                          /\ \A i \in 1..k : IsDigit(stem[i])
                          /\ k < Len(stem) => ~IsDigit(stem[k + 1]))
      Groups(ids) ==
        {<<p[1], {q[2] : q \in {r \in ids : r[1] = p[1]}}>> : p \in ids}
  IN [numeric_ids |-> {ToInt(splitext(n)) : n \in {m \in xml_list : is_standard_filename(m)}},
      invalid_names |-> {n \in xml_list : ~is_standard_filename(n)},
      duplicates |->
        {g \in Groups({<<ToInt(Prefix(splitext(n))), n>>
                       : n \in {m \in xml_list : Prefix(splitext(m)) # <<>>}}) :
           Cardinality(g[2]) > 1}]

\* lines 75-226 of data_audit.py: the files after audit().  The digest of a
\* file stands for its content: two files have one digest exactly when they
\* have one content, and every listed file is still on disk when it is
\* hashed.  A table is read from its first candidate path, data/processed
audit(dir, fs) ==
  LET xml_list == {f.name : f \in {g \in dir : IsXmlFile(g.name)}}
      total_xmls == Cardinality(xml_list)
      Content(f) == [parses |-> f.parses, id |-> f.id, measured |-> f.measured]
      file_sha256(n) == Content(CHOOSE f \in dir : f.name = n)
      group_status(group) ==
        IF Cardinality({file_sha256(n) : n \in group}) = 1
          THEN "identical" ELSE "different"
      Missing(ids) ==
        IF ids = {} THEN {}
        ELSE {n \in (CHOOSE a \in ids : \A b \in ids : a <= b)
                    ..(CHOOSE a \in ids : \A b \in ids : b <= a) : n \notin ids}
      NotIn(table, column) ==  \* lines 156-163 and 178-185
        IF total_xmls - Cardinality({r[column] : r \in table}) > 0
          THEN xml_list \ {r[column] : r \in table}
          ELSE {}
      NoOutcome(table) == {r \in table : r.Lens_Size = NaN \/ r.Vault = NaN}
      Filenames(a) ==
        to_csv(to_csv(to_csv(fs,
            Path.missing_xml, {Pad(n, 8) : n \in Missing(a.numeric_ids)}),
            Path.nonstandard_xml, a.invalid_names),
            Path.duplicate_xml,
            {[XML_ID |-> Pad(g[1], 8), File |-> n, SHA256 |-> file_sha256(n),
              GroupStatus |-> group_status(g[2]),
              IsStandardName |-> is_standard_filename(n),
              Recommended_Delete |->
                group_status(g[2]) = "identical" /\ ~is_standard_filename(n)]
             : <<g, n>> \in {<<h, m>> \in a.duplicates \X xml_list : m \in h[2]}})
      Matched(s) ==
        IF fs[Path.matched].exists
          THEN to_csv(s, Path.unmatched, NotIn(fs[Path.matched].rows, "XML_File"))
          ELSE s
      Outcomes(s) ==
        IF NoOutcome(fs[Path.training].rows) # {}
          THEN to_csv(s, Path.missing_outcomes,
                      {[XML_File |-> r.XML_File, Name |-> r.Name, Eye |-> r.Eye]
                       : r \in NoOutcome(fs[Path.training].rows)})
          ELSE s
      Training(s) ==
        IF fs[Path.training].exists
          THEN Outcomes(to_csv(s, Path.failed, NotIn(fs[Path.training].rows, "XML_File")))
          ELSE s
  IN IF xml_list = {}
       THEN Training(Matched(Filenames(
              [numeric_ids |-> {}, invalid_names |-> {}, duplicates |-> {}])))
       ELSE Training(Matched(Filenames(analyze_xml_filenames(xml_list))))

\* lines 296-563 of match_xml_csv.py: the outcomes of match_xml_to_csv(),
\* one for every choice of the cascade: run holds the lists at the end of the
\* loop, fs the files after the function
match_xml_to_csv(rows, dir, fs) ==
  LET Identity(f) == <<normalize_name(full_name(f.id)), normalize_dob(strip(f.id.dob)),
                       upper(f.id.eye)>>
      Found(f, r) ==
        [XML_File |-> f.name, Name |-> Identity(f)[1], DOB |-> Identity(f)[2],
         Eye |-> Identity(f)[3],
         Lens_Size |-> IF Identity(f)[3] = r.key[3] THEN r.entry.lens_size ELSE Empty,
         Vault |-> IF Identity(f)[3] = r.key[3] THEN r.entry.vault ELSE Empty,
         Original_Lens_Size |-> r.entry.original_lens_size,
         Original_Vault |-> r.entry.original_vault,
         Exchanged_Lens_Size |-> r.entry.exchanged_lens_size,
         Exchanged_Vault |-> r.entry.exchanged_vault,
         Match_Note |-> [dob_match |-> Identity(f)[2] = r.key[2],
                         eye_match |-> Identity(f)[3] = r.key[3]]]
      NotFound(f) ==
        [XML_File |-> f.name, Name |-> Identity(f)[1], DOB |-> Identity(f)[2],
         Eye |-> Identity(f)[3]]
      Return(loaded, listed, xml_files, matched_results, unmatched_results) ==
        [run |-> [loaded |-> loaded, listed |-> listed,
                  xml_files |-> {f.name : f \in xml_files},
                  matched_results |-> matched_results,
                  unmatched_results |-> unmatched_results],
         fs |-> IF matched_results # {} THEN to_csv(fs, Path.matched, matched_results)
                ELSE fs]
      Loop(xml_files, cascades) ==
        {Return(TRUE, TRUE, xml_files,
                {Found(c[1], choice[c[1]]) : c \in {d \in cascades : choice[d[1]].matched}},
                {NotFound(c[1]) : c \in {d \in cascades : ~choice[d[1]].matched}})
         : choice \in {ch \in [{c[1] : c \in cascades} -> UNION {c[2] : c \in cascades}] :
                         \A c \in cascades : ch[c[1]] \in c[2]}}
      Listed(index, xml_files) ==
        IF xml_files = {} THEN {Return(TRUE, FALSE, {}, {}, {})}
        ELSE Loop(xml_files,
                  {<<f, MatchCascade(index, full_name(f.id), Identity(f)[2], Identity(f)[3])>>
                   : f \in {g \in xml_files : g.parses}})
      Loaded(csv_lookup) ==
        IF ~csv_lookup.ok THEN {Return(FALSE, FALSE, {}, {}, {})}
        ELSE Listed(csv_lookup.lookup, {f \in dir : IsXmlFile(f.name)})
  IN Loaded(load_csv_data(rows))

\* lines 360-570 of extract_features.py: the outcomes of
\* extract_all_features(): run.raised says that an exception left the
\* function, fs holds the files after it
extract_all_features(rows, dir, fs) ==
  LET Clean(v, feature) == IF v = None THEN None ELSE validate_value(v, feature).cleaned
      Features(f, r) ==
        [XML_File |-> f.name, Name |-> FeatureName(f.id), Eye |-> strip(f.id.eye),
         Lens_Size |-> Clean(r.entry.lens_size, "Lens_Size"),
         Vault |-> Clean(r.entry.vault, "Vault"),
         features |-> f.measured /\ r.entry.icl_power # None]
      Flagged(all_features) ==
        {r \in all_features : r.Vault # None /\ r.Lens_Size # None /\ ~r.features}
      \* line 377: the list is made once the roster is loaded
      xml_files == {g \in dir : endswith(g.name, <<".", "x", "m", "l">>)}
      Return(loaded, raised, all_features, disk) ==
        [run |-> [loaded |-> loaded, raised |-> raised,
                  xml_files |-> IF loaded THEN {f.name : f \in xml_files} ELSE {},
                  all_features |-> all_features],
         fs |-> disk]
      Save(all_features) ==
        IF all_features = {} THEN Return(TRUE, FALSE, {}, fs)
        ELSE IF Flagged(all_features) = {}
          THEN Return(TRUE, FALSE, all_features, to_csv(fs, Path.training, all_features))
        ELSE Return(TRUE, FALSE, all_features,
                    to_csv(to_csv(fs, Path.training, all_features),
                           Path.flagged, {r.XML_File : r \in Flagged(all_features)}))
      Loop(links) ==
        {IF \E l \in links : choice[l[1]].k = "raised" THEN Return(TRUE, TRUE, {}, fs)
         ELSE Save({Features(l[1], choice[l[1]].result)
                    : l \in {m \in links : /\ choice[m[1]].k = "linked"
                                           /\ choice[m[1]].result.matched}})
         : choice \in {ch \in [{l[1] : l \in links} -> UNION {l[2] : l \in links}] :
                         \A l \in links : ch[l[1]] \in l[2]}}
      Loaded(csv_lookup) ==
        IF ~csv_lookup.ok \/ csv_lookup.lookup = <<>> THEN {Return(FALSE, FALSE, {}, fs)}
        ELSE Loop({<<f, ExtractLink(csv_lookup.lookup, FeatureName(f.id),
                                    normalize_dob(strip(f.id.dob)), strip(f.id.eye))>>
                   : f \in {g \in xml_files : g.parses}})
  IN Loaded(load_csv_with_seq(rows))

\* lines 53-62 of run_pipeline.py; every file of this model has a header
csv_row_count(fs, path) ==
  IF ~fs[path].exists THEN 0 ELSE Cardinality(fs[path].rows)

\* lines 64-69: TRUE stands for sys.exit(1)
gate_on_csv_rows(fs, path) == csv_row_count(fs, path) > 0

\* the mutant of run_preprocessing_gates: the duplicate report is not gated
run_preprocessing_gates_two(fs) ==
  \/ gate_on_csv_rows(fs, Path.missing_xml)
  \/ gate_on_csv_rows(fs, Path.nonstandard_xml)

run_preprocessing_gates(fs) ==
  \/ gate_on_csv_rows(fs, Path.missing_xml)
  \/ gate_on_csv_rows(fs, Path.nonstandard_xml)
  \/ gate_on_csv_rows(fs, Path.duplicate_xml)

\* the mutant of run_feature_gates: the gate reads the training table's
\* failed-extraction report instead of the flagged cases
run_feature_gates_failed(fs) == gate_on_csv_rows(fs, Path.failed)

run_feature_gates(fs) == gate_on_csv_rows(fs, Path.flagged)

Init ==
  /\ pc = "check_files" /\ halt = Idle /\ started = {}
  /\ xmlDir \in XmlDirs
  /\ images \in BOOLEAN
  /\ files \in PriorDisks
  /\ matchRun = Idle /\ extractRun = Idle
  /\ roster \in {<<>>, <<RosterRows[1], RosterRows[2]>>}
  /\ scanId = Idle /\ lookup = Idle /\ lookupSeq = Idle
  /\ match1 = Idle /\ match2 = Idle /\ link = Idle
  /\ doc = Idle /\ features = Idle
  /\ ValidateIdle

\* sys.exit(code) in the step: every sys.exit(1) of main and of the gates
\* follows a failure
Exit(step, code) ==
  pc' = "exit" /\ halt' = [code |-> code, at |-> step, failed |-> code # 0]

\* lines 127-129: the preflight on the working directory
CheckFiles ==
  /\ pc = "check_files"
  /\ \E all_ok \in BOOLEAN :
        IF all_ok THEN pc' = "excel_to_csv" /\ halt' = halt
        ELSE Exit("check_files", 1)
  /\ started' = started \cup {"check_files"}
  /\ UNCHANGED <<xmlDir, images, files, matchRun, extractRun, matchVars, validateVars>>

\* lines 131-159: step 1, and the test that decides whether step 2 runs;
\* roster holds the rows of the CSV the conversion leaves
ExcelToCsv ==
  /\ pc = "excel_to_csv"
  /\ \E success \in BOOLEAN :
        IF success
          THEN pc' = (IF images THEN "ini_to_xml" ELSE "audit_pre") /\ halt' = halt
        ELSE Exit("excel_to_csv", 1)
  /\ started' = started \cup {"excel_to_csv"}
  /\ UNCHANGED <<xmlDir, images, files, matchRun, extractRun, matchVars, validateVars>>

\* lines 150-157: step 2; the conversion adds the scans of the new batch
IniToXml ==
  /\ pc = "ini_to_xml"
  /\ \E success \in BOOLEAN :
        IF success
          THEN /\ xmlDir' \in {d \in XmlDirs : xmlDir \subseteq d}
               /\ pc' = "audit_pre" /\ halt' = halt
        ELSE Exit("ini_to_xml", 1) /\ xmlDir' = xmlDir
  /\ started' = started \cup {"ini_to_xml"}
  /\ UNCHANGED <<images, files, matchRun, extractRun, matchVars, validateVars>>

\* lines 161-168 and 189-196: data_audit.py as a subprocess
Audit(step, gates) ==
  /\ pc = step
  /\ \E success \in BOOLEAN :
        IF success
          THEN files' = audit(xmlDir, files) /\ pc' = gates /\ halt' = halt
        ELSE Exit(step, 1) /\ files' = files
  /\ started' = started \cup {step}
  /\ UNCHANGED <<xmlDir, images, matchRun, extractRun, matchVars, validateVars>>

\* lines 169 and 197: the gates after an audit
Gates(step, tripped, next) ==
  /\ pc = step
  /\ IF tripped THEN Exit(step, 1) ELSE pc' = next /\ halt' = halt
  /\ started' = started \cup {step}
  /\ UNCHANGED <<xmlDir, images, files, matchRun, extractRun, matchVars, validateVars>>

\* lines 171-178: step 4
Match ==
  /\ pc = "match"
  /\ \E success \in BOOLEAN :
        IF success
          THEN \E out \in match_xml_to_csv(roster, xmlDir, files) :
                 /\ matchRun' = out.run /\ files' = out.fs
                 /\ pc' = "extract" /\ halt' = halt
        ELSE Exit("match", 1) /\ matchRun' = matchRun /\ files' = files
  /\ started' = started \cup {"match"}
  /\ UNCHANGED <<xmlDir, images, extractRun, matchVars, validateVars>>

\* lines 180-187: step 5; an exception that leaves extract_all_features
\* ends the subprocess with a non-zero code
Extract ==
  /\ pc = "extract"
  /\ \E success \in BOOLEAN :
        IF success
          THEN \E out \in extract_all_features(roster, xmlDir, files) :
                 /\ extractRun' = out.run /\ files' = out.fs
                 /\ IF out.run.raised THEN Exit("extract", 1)
                    ELSE pc' = "audit_post" /\ halt' = halt
        ELSE Exit("extract", 1) /\ extractRun' = extractRun /\ files' = files
  /\ started' = started \cup {"extract"}
  /\ UNCHANGED <<xmlDir, images, matchRun, matchVars, validateVars>>

\* lines 199-283: step 7 runs the summary as a subprocess; its code is not
\* read, main prints 'Completed' and returns
Summary ==
  /\ pc = "summary"
  /\ \E success \in BOOLEAN :
        pc' = "exit" /\ halt' = [code |-> 0, at |-> "summary", failed |-> ~success]
  /\ started' = started \cup {"summary"}
  /\ UNCHANGED <<xmlDir, images, files, matchRun, extractRun, matchVars, validateVars>>

Next ==
  \/ CheckFiles
  \/ ExcelToCsv
  \/ IniToXml
  \/ Audit("audit_pre", "gates_pre")
  \/ Gates("gates_pre", run_preprocessing_gates(files), "match")
  \/ Match
  \/ Extract
  \/ Audit("audit_post", "gates_post")
  \/ Gates("gates_post", run_feature_gates(files), "summary")
  \/ Summary

\* main runs its steps one after the other until it returns or exits
Spec == Init /\ [][Next]_vars /\ WF_vars(Next)

(***************************************************************************)
(* SpecFeatures: extract_xml_features and the loop body of                  *)
(* extract_all_features on one scan document.  A document is [parses,       *)
(* sections], a section [name, entries], an entry [key, text, num]: text is *)
(* the entry's text where the key is read as text, num is what float()      *)
(* makes of the stripped text where the key is read as a number (Text for   *)
(* a text that is no number, Empty for a blank text).  The key of the       *)
(* chamber angle is written without its degree signs.  A quotient is kept   *)
(* to the hundredth below it and its range test is made on the exact        *)
(* quotient.                                                                *)
(***************************************************************************)

\* validate_value(n / dd, feature) for dd > 0
validate_quotient(n, dd, feature) ==
  IF (n * Scale) % dd = 0 /\ (n * Scale) \div dd = SENTINEL.v
    THEN [is_valid |-> FALSE, cleaned |-> None,
          warning |-> [feature |-> feature, kind |-> "sentinel"]]
  ELSE IF \/ n * Scale < FEATURE_RANGES[feature][1] * dd
          \/ n * Scale > FEATURE_RANGES[feature][2] * dd
    THEN [is_valid |-> FALSE, cleaned |-> Num((n * Scale) \div dd),
          warning |-> [feature |-> feature, kind |-> "outside range"]]
  ELSE [is_valid |-> TRUE, cleaned |-> Num((n * Scale) \div dd), warning |-> None]

\* the quotient of any two numbers but for a zero divisor, unvalidated
ac_shape_ratio_unguarded(acv, acd) ==
  IF acv # None /\ acd # None /\ acv.k = "num" /\ acd.k = "num" /\ acd.v # 0
    THEN [cleaned |-> Num((acv.v * Scale) \div acd.v), warning |-> None]
    ELSE [cleaned |-> None, warning |-> None]

\* lines 200-218 on the validated ACV and ACD_internal: [cleaned, warning];
\* with an infinite operand the quotient is 0, infinite or nan
ac_shape_ratio(acv, acd) ==
  LET Nulled(r) ==
        [cleaned |-> IF r.is_valid THEN r.cleaned ELSE None, warning |-> r.warning]
  IN IF acv = None \/ acd = None THEN [cleaned |-> None, warning |-> None]
     ELSE IF acd = NegInf \/ (acd.k = "num" /\ acd.v <= 0)
       THEN [cleaned |-> None, warning |-> None]
     ELSE IF acv.k = "num" /\ acd.k = "num"
       THEN Nulled(validate_quotient(acv.v, acd.v, "AC_shape_ratio"))
     ELSE [cleaned |-> None,
           warning |-> [feature |-> "AC_shape_ratio",
                        kind |-> IF acv.k # "num" /\ acd.k # "num"
                                   THEN "missing" ELSE "outside range"]]

\* lines 84-224 of extract_features.py; None when the file does not parse
extract_xml_features(d) ==
  LET Keyed(es, key) == {i \in DOMAIN es : es[i].key = key}
      MaxOf(S) == CHOOSE i \in S : \A j \in S : j <= i
      MinOf(S) == CHOOSE i \in S : \A j \in S : i <= j
      Flat(secs) ==
        LET F[k \in 0..Len(secs)] ==
              IF k = 0 THEN <<>> ELSE F[k-1] \o secs[k].entries
        IN F[Len(secs)]
      \* an unconditional assignment per entry: the last entry under key wins
      LastText(es, key, old) ==
        IF Keyed(es, key) = {} THEN old ELSE strip(es[MaxOf(Keyed(es, key))].text)
      LastNum(es, key, old) ==
        IF Keyed(es, key) = {} THEN old ELSE es[MaxOf(Keyed(es, key))].num
      \* an assignment under 'not features[...]': the first text that is not
      \* blank stays, '' when every text under key is blank
      FirstNum(es, key) ==
        IF Keyed(es, key) = {} THEN None
        ELSE IF \A i \in Keyed(es, key) : es[i].num = Empty THEN Empty
        ELSE es[MinOf({i \in Keyed(es, key) : es[i].num # Empty})].num
      Truthy(t) == t # NoneText /\ t # <<>>
      IsPatient(s) == s.name = <<"P", "a", "t", "i", "e", "n", "t", " ", "D", "a", "t", "a">>
      IsTest(s) ==
        /\ contains(s.name, <<"T", "e", "s", "t", " ", "D", "a", "t", "a">>)
        /\ contains(s.name, <<"O", "D">>) \/ contains(s.name, <<"O", "S">>)
      \* lines 117-136; a stripped text has a first token or is empty, so that
      \* normalize_dob does not raise here
      Dob(es) ==
        IF Keyed(es, "DOB") = {} THEN NoneText
        ELSE normalize_dob(strip(es[MaxOf(Keyed(es, "DOB"))].text))
      \* lines 140-163: the test sections in order, up to the first one that
      \* leaves an eye
      FirstPass(T) ==
        LET S[k \in 0..Len(T)] ==
              IF k = 0
                THEN [Eye |-> NoneText, Exam_Date |-> NoneText, CCT |-> None,
                      SimK_steep |-> None, WTW |-> None, Pupil_diameter |-> None]
              ELSE IF Truthy(S[k-1].Eye) THEN S[k-1]
              ELSE [Eye |-> LastText(T[k].entries, "Eye", S[k-1].Eye),
                    Exam_Date |-> LastText(T[k].entries, "Test Date", S[k-1].Exam_Date),
                    CCT |-> LastNum(T[k].entries, "Central Corneal Thickness", S[k-1].CCT),
                    SimK_steep |-> LastNum(T[k].entries, "SimK steep D", S[k-1].SimK_steep),
                    WTW |-> LastNum(T[k].entries, "Cornea Dia Horizontal", S[k-1].WTW),
                    Pupil_diameter |->
                      LastNum(T[k].entries, "Pupil diameter mm", S[k-1].Pupil_diameter)]
        IN S[Len(T)]
      Valid(v) == [is_valid |-> TRUE, cleaned |-> v, warning |-> None]
      Checked(v, feature) == IF v = None THEN Valid(None) ELSE validate_value(v, feature)
      \* calculate_age, lines 73-81 and 186-187: days / 365.25
      Age(dob, exam) ==
        IF Truthy(dob) /\ Truthy(exam) /\ strptime(dob).ok /\ strptime(exam).ok
          THEN validate_quotient((Ordinal(strptime(exam).y, strptime(exam).m, strptime(exam).d)
                         - Ordinal(strptime(dob).y, strptime(dob).m, strptime(dob).d)) * 100,
                        36525, "Age")
          ELSE Valid(None)
      Order ==
        <<"Age", "WTW", "ACD_internal", "ACV", "ACA_global", "Pupil_diameter",
          "TCRP_Km", "TCRP_Astigmatism", "SimK_steep", "CCT", "BAD_D">>
      Warned(r) == r.warning # None
      Result(name, dob, first, c, shape) ==
        [Name |-> name, DOB |-> dob, Eye |-> first.Eye, Exam_Date |-> first.Exam_Date,
         Age |-> c["Age"].cleaned, WTW |-> c["WTW"].cleaned,
         ACD_internal |-> c["ACD_internal"].cleaned, ACV |-> c["ACV"].cleaned,
         ACA_global |-> c["ACA_global"].cleaned,
         Pupil_diameter |-> c["Pupil_diameter"].cleaned,
         TCRP_Km |-> c["TCRP_Km"].cleaned,
         TCRP_Astigmatism |-> c["TCRP_Astigmatism"].cleaned,
         SimK_steep |-> c["SimK_steep"].cleaned, CCT |-> c["CCT"].cleaned,
         BAD_D |-> c["BAD_D"].cleaned, AC_shape_ratio |-> shape.cleaned,
         validation_warnings |->
           [i \in 1..Len(SelectSeq([j \in 1..Len(Order) |-> c[Order[j]]] \o <<shape>>, Warned))
              |-> SelectSeq([j \in 1..Len(Order) |-> c[Order[j]]] \o <<shape>>, Warned)[i].warning]]
      Validated(name, dob, first, c) ==
        Result(name, dob, first, c,
               ac_shape_ratio(c["ACV"].cleaned, c["ACD_internal"].cleaned))
      Features(name, dob, first, all) ==
        Validated(name, dob, first,
          [f \in {Order[j] : j \in 1..Len(Order)} |->
             CASE f = "Age"              -> Age(dob, first.Exam_Date)
               [] f = "WTW"              -> Checked(first.WTW, f)
               [] f = "Pupil_diameter"   -> Checked(first.Pupil_diameter, f)
               [] f = "SimK_steep"       -> Checked(first.SimK_steep, f)
               [] f = "CCT"              -> Checked(first.CCT, f)
               [] f = "ACD_internal"     -> Checked(FirstNum(all, "ACD (Int.) [mm]"), f)
               [] f = "ACV"              -> Checked(FirstNum(all, "ACV"), f)
               [] f = "ACA_global"       -> Checked(FirstNum(all, "ACA (180) []"), f)
               [] f = "TCRP_Km"          -> Checked(FirstNum(all, "TCRP 3mm zone pupil Km [D]"), f)
               [] f = "TCRP_Astigmatism" -> Checked(FirstNum(all, "TCRP 3mm zone pupil Asti [D]"), f)
               [] f = "BAD_D"            -> Checked(FirstNum(all, "BAD D"), f)])
      Patient(es) ==
        Features(FeatureName([surname |-> LastText(es, "Surname", <<>>),
                              name |-> LastText(es, "Name", <<>>)]),
                 Dob(es), FirstPass(SelectSeq(d.sections, IsTest)), Flat(d.sections))
  IN IF ~d.parses THEN None ELSE Patient(Flat(SelectSeq(d.sections, IsPatient)))

\* the scan documents of the specification: a patient section (a patient of
\* 25 years, a child out of the age range, or no date of birth), a test
\* section of the right eye and an overview, with the corneal diameter, the
\* chamber volume and the chamber depth drawn from in-range, out-of-range,
\* sentinel, non-numeric, blank and absent values; documents in which a key
\* occurs twice (in one test section, in two test sections with or without
\* an eye in the first, in the overview, in a test section and the
\* overview); and a file that does not parse
Docs ==
  LET E(key, text, num) == [key |-> key, text |-> text, num |-> num]
      Maybe(key, num) == IF num = None THEN <<>> ELSE <<E(key, <<>>, num)>>
      Doc(dob, wtw, acv, acd) ==
        [parses |-> TRUE,
         sections |->
           <<[name |-> <<"P", "a", "t", "i", "e", "n", "t", " ", "D", "a", "t", "a">>,
              entries |-> <<E("Name", <<"N", "o", "a", "h">>, Empty),
                            E("Surname", <<"G", "o", "n", "z", "a", "l", "e", "z", "-", "W", "o", "o", "d", "i", "n", "g">>, Empty)>>
                          \o (IF dob = NoneText THEN <<>> ELSE <<E("DOB", dob, Empty)>>)],
             [name |-> <<"T", "e", "s", "t", " ", "D", "a", "t", "a", " ", "O", "D">>,
              entries |-> <<E("Eye", <<"O", "D">>, Empty),
                            E("Test Date", <<"2", "0", "2", "4", "-", "0", "5", "-", "0", "2">>, Empty),
                            E("SimK steep D", <<>>, Num(4400))>>
                          \o Maybe("Cornea Dia Horizontal", wtw)],
             [name |-> <<"G", "e", "n", "e", "r", "a", "l", " ", "O", "v", "e", "r", "v", "i", "e", "w">>,
              entries |-> Maybe("ACV", acv) \o Maybe("ACD (Int.) [mm]", acd)]>>]
      Plain == Doc(<<"1", "9", "9", "9", "-", "0", "5", "-", "0", "2">>, None, None, None)
      Eye(eye) == <<E("Eye", eye, Empty)>>
      Date == <<E("Test Date", <<"2", "0", "2", "4", "-", "0", "5", "-", "0", "2">>, Empty)>>
      Wtw(num) == <<E("Cornea Dia Horizontal", <<>>, num)>>
      Acv(num) == <<E("ACV", <<>>, num)>>
      Acd(num) == <<E("ACD (Int.) [mm]", <<>>, num)>>
      OS == <<"T", "e", "s", "t", " ", "D", "a", "t", "a", " ", "O", "S">>
      Repeat(test1, test2, overview) ==
        [parses |-> TRUE,
         sections |->
           <<Plain.sections[1], [name |-> Plain.sections[2].name, entries |-> test1]>>
           \o (IF test2 = <<>> THEN <<>> ELSE <<[name |-> OS, entries |-> test2]>>)
           \o <<[name |-> Plain.sections[3].name, entries |-> overview]>>]
  IN {Doc(dob, wtw, acv, acd) :
        dob \in {<<"1", "9", "9", "9", "-", "0", "5", "-", "0", "2">>, <<"2", "0", "1", "5", "-", "0", "5", "-", "0", "2">>, NoneText},
        wtw \in {Num(1180), Num(900), SENTINEL},
        acv \in {Num(19000), Num(50000), Text, None},
        acd \in {Num(310), Num(0), Num(-100), Num(50), SENTINEL, Empty, PosInf, None}}
     \cup {Repeat(Eye(<<"O", "D">>) \o Date \o Wtw(Num(1180)) \o Wtw(Num(1250)), <<>>,
                  Acv(Num(19000)) \o Acd(Num(310))),
           Repeat(Eye(<<"O", "D">>) \o Date \o Wtw(Num(1180)),
                  Eye(<<"O", "S">>) \o Date \o Wtw(Num(1250)),
                  Acv(Num(19000)) \o Acd(Num(310))),
           Repeat(Date \o Wtw(Num(1180)),
                  Eye(<<"O", "S">>) \o Date \o Wtw(Num(1250)),
                  Acv(Num(19000)) \o Acd(Num(310))),
           Repeat(Eye(<<"O", "D">>) \o Date, <<>>,
                  Acv(Num(19000)) \o Acv(Num(25000)) \o Acd(Num(310))),
           Repeat(Eye(<<"O", "D">>) \o Date, <<>>,
                  Acv(Empty) \o Acv(Num(19000)) \o Acd(Num(310)) \o Acd(Num(350))),
           Repeat(Eye(<<"O", "D">>) \o Date \o Acv(Num(19000)), <<>>,
                  Acv(Num(25000)) \o Acd(Num(310)))}
     \cup {[parses |-> FALSE, sections |-> <<>>]}

\* the roster holds one row, surname first with a comma
InitFeatures ==
  /\ doc \in Docs
  /\ roster =
       <<[NAME |-> <<"G", "o", "n", "z", "a", "l", "e", "z", "-", "W", "o", "o", "d", "i", "n", "g", ",", " ", "N", "o", "a", "h">>,
          DOB |-> <<"1", "9", "9", "9", "-", "0", "5", "-", "0", "2">>, Eye |-> <<"O", "D">>, Exchange |-> NaNText,
          ICL_Size |-> Num(1260), Vault |-> Num(42000), Exchanged_Size |-> NaN,
          Exchanged_Vault |-> NaN, ICL_Power |-> Num(-850), Exchanged_Power |-> NaN,
          Sphere |-> Num(-800), Cyl |-> Num(-50)]>>
  /\ scanId = Idle /\ lookup = Idle /\ lookupSeq = Idle
  /\ match1 = Idle /\ match2 = Idle /\ link = Idle
  /\ features = Idle
  /\ ValidateIdle
  /\ PipeIdle

\* line 388
ExtractXmlFeatures ==
  /\ doc # Idle
  /\ lookupSeq # Idle /\ lookupSeq.ok /\ lookupSeq.lookup # <<>>
  /\ features = Idle
  /\ features' = extract_xml_features(doc)
  /\ UNCHANGED <<roster, scanId, lookup, lookupSeq, match1, match2, link, doc,
                 validateVars, pipeVars>>

\* lines 389-504 for the features of one file: "skipped" (continue),
\* "raised", "linked" without a roster entry (continue), or "merged" with the
\* row appended to all_features
LinkFeatures ==
  LET Checked(v, feature) ==
        IF v = None THEN [cleaned |-> None, warning |-> None]
        ELSE validate_value(v, feature)
      Warning(r) == IF r.warning = None THEN <<>> ELSE <<r.warning>>
      Row(f, entry) ==
        [f EXCEPT !.validation_warnings =
                    @ \o Warning(Checked(entry.vault, "Vault"))
                      \o Warning(Checked(entry.lens_size, "Lens_Size"))]
        @@ [SEQ |-> entry.seq, ICL_Power |-> entry.icl_power,
            Lens_Size |-> Checked(entry.lens_size, "Lens_Size").cleaned,
            Vault |-> Checked(entry.vault, "Vault").cleaned,
            Exchange |-> entry.exchange]
      Merged(l) ==
        IF l.k = "linked" /\ l.result.matched
          THEN [k |-> "merged", result |-> l.result, row |-> Row(features, l.result.entry)]
          ELSE l
  IN /\ features # Idle
     /\ link = Idle
     /\ link' \in IF features = None THEN {[k |-> "skipped"]}
                  ELSE {Merged(l) : l \in ExtractLink(lookupSeq.lookup, features.Name,
                                                      features.DOB, features.Eye)}
     /\ UNCHANGED <<roster, scanId, lookup, lookupSeq, match1, match2, doc, features,
                    validateVars, pipeVars>>

NextFeatures ==
  \/ LoadCsvWithSeq
  \/ ExtractXmlFeatures
  \/ LinkFeatures

SpecFeatures == InitFeatures /\ [][NextFeatures]_vars

(***************************************************************************)
(* SpecAudit: one run of data_audit.py on a scan directory of at most       *)
(* MaxAuditFiles files.  The names are 8-digit names with a gap at 3, a     *)
(* copy, a short number, an upper-case extension, a name without a number   *)
(* and a file that is no XML file; each file has one of two contents.       *)
(* data/processed is empty before the run.                                  *)
(***************************************************************************)
MaxAuditFiles == 4

AuditDirs ==
  LET Names ==
        {<<"0", "0", "0", "0", "0", "0", "0", "1", ".", "x", "m", "l">>, <<"0", "0", "0", "0", "0", "0", "0", "2", ".", "x", "m", "l">>, <<"0", "0", "0", "0", "0", "0", "0", "4", ".", "x", "m", "l">>, <<"0", "0", "0", "0", "0", "0", "0", "5", ".", "x", "m", "l">>,
         <<"0", "0", "0", "0", "0", "0", "0", "2", "_", "c", "o", "p", "y", ".", "x", "m", "l">>, <<"2", ".", "x", "m", "l">>, <<"0", "0", "0", "0", "0", "0", "0", "4", ".", "X", "M", "L">>,
         <<"n", "o", "t", "e", "s", ".", "x", "m", "l">>, <<"0", "0", "0", "0", "0", "0", "0", "3", ".", "t", "x", "t">>}
      Contents ==
        {[parses |-> TRUE, id |-> ScanIds[1], measured |-> TRUE],
         [parses |-> TRUE, id |-> ScanIds[2], measured |-> FALSE]}
      Files ==
        {[name |-> n, parses |-> c.parses, id |-> c.id, measured |-> c.measured]
         : n \in Names, c \in Contents}
  IN {d \in SUBSET Files :
        Cardinality(d) <= MaxAuditFiles /\ \A f, g \in d : f.name = g.name => f = g}

InitAudit ==
  /\ pc = "audit" /\ halt = Idle /\ started = {}
  /\ xmlDir \in AuditDirs
  /\ images = FALSE
  /\ files \in {d \in PriorDisks : \A q \in DOMAIN d : ~d[q].exists}
  /\ matchRun = Idle /\ extractRun = Idle
  /\ MatchIdle
  /\ ValidateIdle

NextAudit == Audit("audit", "audited")

SpecAudit == InitAudit /\ [][NextAudit]_vars

(***************************************************************************)
(* SpecCalls: normalize_dob and create_name_variations as functions of a    *)
(* text: a call on a text of CallInputs, and one more call on a value the   *)
(* first call returned.  A call is [fn, arg, again, first]: again says that *)
(* arg comes from the result of a first call, first holds that result.  A   *)
(* result is [k |-> "return", value] or [k |-> "raise"].  The dates of     *)
(* birth are empty, blank, no date, dates in the forms Y-M-D and M/D/Y,     *)
(* impossible dates, a date with a time and a malformed year; the names     *)
(* have one, two and three parts, a suffix, a hyphen, a comma and the       *)
(* spellings of the substitution table.                                     *)
(***************************************************************************)
CallInputs ==
  {[fn |-> "normalize_dob", arg |-> s, again |-> FALSE, first |-> Idle]
   : s \in {<<>>,
               <<" ", " ", " ">>,
               <<"a", "b", "c">>,
               <<"n", "/", "a">>,
               <<"1", "9", "9", "9", "-", "0", "5", "-", "0", "2">>,
               <<"5", "/", "2", "/", "1", "9", "9", "9">>,
               <<"0", "5", "/", "0", "2", "/", "1", "9", "9", "9">>,
               <<"1", "9", "9", "9", "-", "1", "3", "-", "4", "5">>,
               <<"6", "/", "2", "7", "/", "0", "1", "8", "7">>,
               <<"1", "9", "9", "9", "-", "0", "5", "-", "0", "2", " ", "0", "0", ":", "0", "0", ":", "0", "0">>,
               <<" ", "1", "9", "9", "9", "-", "5", "-", "2", " ">>,
               <<"1", "3", "/", "4", "5", "/", "1", "9", "9", "9">>,
               <<"2", "0", "1", "8", "-", "0", "1", "-", "0", "5">>,
               <<"3", "/", "1", "4", "/", "2", "0", "1", "8">>,
               <<"0", "1", "8", "7", "-", "0", "6", "-", "2", "7">>}}
  \cup
  {[fn |-> "create_name_variations", arg |-> s, again |-> FALSE, first |-> Idle]
   : s \in {<<>>,
               <<"L", "e", "e", " ", "A", "n", "n">>,
               <<"J", "o", "n", " ", "S", "m", "i", "t", "h">>,
               <<"R", "u", "s", "s", "e", "l", "l", " ", "S", "m", "i", "t", "h">>,
               <<"J", "o", "n", "a", "s", " ", "S", "m", "i", "t", "h">>,
               <<"L", "e", "e", " ", "A", "n", "n", " ", "J", "r">>,
               <<"K", "i", "m", " ", "L", "e", "e", "-", "P", "a", "r", "k">>,
               <<"P", "a", "r", "k", ",", " ", "K", "i", "m">>,
               <<"S", "m", "i", "t", "h">>,
               <<"M", "i", "c", "h", "a", "e", "l", " ", "L", "e", "e">>,
               <<"l", "e", "e", " ", " ", "a", "n", "n", "e">>,
               <<"G", "o", "n", "z", "a", "l", "e", "z", "-", "W", "o", "o", "d", "i", "n", "g", " ", "N", "o", "a", "h">>,
               <<"A", "l", " ", "B", "e", "n", "t", "o", "n">>}}

InitCalls ==
  /\ vIn \in CallInputs
  /\ vOut = Idle
  /\ MatchIdle
  /\ PipeIdle

Call ==
  LET Return(v) == IF v = Raise THEN [k |-> "raise"] ELSE [k |-> "return", value |-> v]
  IN /\ vOut = Idle
     /\ vOut' = IF vIn.fn = "normalize_dob" THEN Return(normalize_dob(vIn.arg))
                ELSE [k |-> "return", value |-> create_name_variations(vIn.arg)]
     /\ UNCHANGED <<vIn, matchVars, pipeVars>>

\* the function is called once more, on the date of birth, or on one of the
\* names, that it returned
CallOnResult ==
  /\ vOut # Idle /\ vOut.k = "return"
  /\ ~vIn.again
  /\ \E v \in IF vIn.fn = "normalize_dob" THEN {vOut.value} ELSE vOut.value :
        vIn' = [fn |-> vIn.fn, arg |-> v, again |-> TRUE, first |-> vOut]
  /\ vOut' = Idle
  /\ UNCHANGED <<matchVars, pipeVars>>

NextCalls ==
  \/ Call
  \/ CallOnResult

SpecCalls == InitCalls /\ [][NextCalls]_vars

(***************************************************************************)
(* C1 .. C6: the gates of the orchestrator, the collections of the linkage  *)
(* steps and the reports of the audit, under Spec.                          *)
(***************************************************************************)
\* the preprocessing audit has ended and one of its three reports holds a row
C1_Tripped ==
  /\ pc = "gates_pre"
  /\ \E p \in {Path.missing_xml, Path.nonstandard_xml, Path.duplicate_xml} :
        files[p].exists /\ files[p].rows # {}

\* C1: in every run of main, if after the preprocessing audit one of the
\* reports missing_xml_ids.csv, nonstandard_xml_filenames.csv or
\* duplicate_xml_ids.csv holds at least one data row, then the run exits with
\* a non-zero code and neither the matching step nor the feature-extraction
\* step is ever started in that run.
C1_PreprocessingGate ==
  /\ [](C1_Tripped => []("match" \notin started /\ "extract" \notin started))
  /\ C1_Tripped ~> (pc = "exit" /\ halt.code # 0)

\* a run that exited at the preprocessing gates on a duplicate ID with an
\* empty report of missing IDs, before the matching step
C1_Witness ==
  /\ pc = "exit" /\ halt.code = 1 /\ halt.at = "gates_pre"
  /\ files[Path.duplicate_xml].rows # {}
  /\ files[Path.missing_xml].exists /\ files[Path.missing_xml].rows = {}
  /\ "match" \notin started /\ "extract" \notin started

\* the extraction step of this run has ended and the report of incomplete
\* feature cases holds a row
C2_Flagged ==
  /\ pc = "audit_post"
  /\ files[Path.flagged].exists /\ files[Path.flagged].rows # {}

C3_NoScanDropped ==
  /\ (matchRun # Idle /\ matchRun.listed) =>
        \A f \in xmlDir :
          IsXmlFile(f.name) =>
            (f.name \in {r.XML_File : r \in matchRun.matched_results})
              # (f.name \in {r.XML_File : r \in matchRun.unmatched_results})
  /\ (extractRun # Idle /\ extractRun.loaded /\ ~extractRun.raised) =>
        \A f \in xmlDir :
          IsXmlFile(f.name) => f.name \in {r.XML_File : r \in extractRun.all_features}

\* C4: after a linkage run that got past loading the roster and listing the
\* scan files, the run has written its table: matched_patients.csv after
\* match_xml_to_csv, training_data.csv after extract_all_features, also when
\* the table has no row.
C4_OutputsMaterialized ==
  /\ (matchRun # Idle /\ matchRun.listed) => files[Path.matched].fresh
  /\ (extractRun # Idle /\ extractRun.loaded /\ ~extractRun.raised)
        => files[Path.training].fresh

\* C5: after an audit, the report of every check the audit performed has been
\* written by this run: the three filename reports always, the unmatched
\* scans when a matched table was read, the failed extractions and the
\* missing outcomes when a training table was read.
C5_ReportsWritten ==
  pc \in {"gates_pre", "gates_post"} =>
    /\ \A p \in {Path.missing_xml, Path.nonstandard_xml, Path.duplicate_xml} :
          files[p].fresh
    /\ files[Path.matched].exists => files[Path.unmatched].fresh
    /\ files[Path.training].exists =>
          files[Path.failed].fresh /\ files[Path.missing_outcomes].fresh

\* C6: the run never proceeds past a gate whose report file does not exist:
\* the matching step starts only with the three filename reports on disk, and
\* the summary step is reached only with flagged_incomplete_cases.csv on disk.
C6_MissingReportIsError ==
  /\ "match" \in started =>
        \A p \in {Path.missing_xml, Path.nonstandard_xml, Path.duplicate_xml} :
          files[p].exists
  /\ (pc = "summary" \/ "summary" \in started) => files[Path.flagged].exists

(***************************************************************************)
(* C7, C8: the match cascade under SpecMatch.  C9: the roster index under   *)
(* SpecIndex.                                                               *)
(***************************************************************************)
\* the keys of an index that a scan's name variants form with its dob and eye
C7_ExactKeys(index, name, eye) ==
  {k \in DOMAIN index :
     /\ k[1] \in create_name_variations(name)
     /\ k[2] = normalize_dob(strip(scanId.dob))
     /\ k[3] = eye}

\* C7, part match_xml_to_csv: a scan for which a name variant with its dob and
\* eye is a key of the index is linked through the exact strategy to the entry
\* stored under such a key.
C7_MatchExactFirst ==
  (match1 # Idle /\ C7_ExactKeys(lookup.lookup, full_name(scanId), upper(scanId.eye)) # {})
    => /\ match1.matched
       /\ match1.strategy = "exact"
       /\ match1.key \in C7_ExactKeys(lookup.lookup, full_name(scanId), upper(scanId.eye))
       /\ match1.entry = lookup.lookup[match1.key].entry

\* C7: strategy priority is respected by the match cascade of
\* extract_all_features as well: a scan for which a name variant with its dob
\* and eye is a key of the index is linked through the exact strategy.
C7_ExtractExactFirst ==
  (link # Idle
     /\ C7_ExactKeys(lookupSeq.lookup, FeatureName(scanId), upper(strip(scanId.eye))) # {})
    => /\ link.k = "linked"
       /\ link.result.matched
       /\ link.result.strategy = "exact"

\* C8: matching is deterministic: two invocations of the cascade on the same
\* index and the same scan identity return the same entry and strategy.
C8_Deterministic ==
  (match1 # Idle /\ match2 # Idle)
    => /\ match1.matched = match2.matched
       /\ match1.strategy = match2.strategy
       /\ match1.matched => match1.entry = match2.entry

\* the exchange flags of the rosters that read YES, as written in the cells
C9_YesFlags == {<<"Y","E","S">>, <<"y","e","s">>, <<" ","Y","e","s"," ">>}

\* an empty cell is kept as the loader's blank (missing: '' or None)
C9_Cell(x, missing) == IF x = NaN THEN missing ELSE x

C9_Carries(e, missing) ==
  IF roster[e.row].Exchange \in C9_YesFlags
    THEN /\ e.lens_size = C9_Cell(roster[e.row].Exchanged_Size, missing)
         /\ e.vault = C9_Cell(roster[e.row].Exchanged_Vault, missing)
    ELSE /\ e.lens_size = C9_Cell(roster[e.row].ICL_Size, missing)
         /\ e.vault = C9_Cell(roster[e.row].Vault, missing)

\* C9: every entry of the index built by load_csv_data and by
\* load_csv_with_seq carries the exchanged size and vault of its row when the
\* row's exchange flag is YES, and the original size and vault otherwise.
C9_ExchangeSupersedes ==
  /\ (lookup # Idle /\ lookup.ok)
       => \A k \in DOMAIN lookup.lookup : C9_Carries(lookup.lookup[k].entry, Empty)
  /\ (lookupSeq # Idle /\ lookupSeq.ok)
       => \A k \in DOMAIN lookupSeq.lookup : C9_Carries(lookupSeq.lookup[k].entry, None)

\* both indexes hold an entry of an exchanged row whose exchanged size and
\* vault differ from the original ones, and an entry of a row not exchanged
C9_Witness ==
  /\ lookup # Idle /\ lookup.ok
  /\ lookupSeq # Idle /\ lookupSeq.ok
  /\ \A l \in {lookup.lookup, lookupSeq.lookup} :
        /\ \E k \in DOMAIN l :
              /\ roster[l[k].entry.row].Exchange \in C9_YesFlags
              /\ roster[l[k].entry.row].Exchanged_Size # roster[l[k].entry.row].ICL_Size
              /\ roster[l[k].entry.row].Exchanged_Vault # roster[l[k].entry.row].Vault
              /\ l[k].entry.vault = roster[l[k].entry.row].Exchanged_Vault
        /\ \E k \in DOMAIN l :
              /\ roster[l[k].entry.row].Exchange \notin C9_YesFlags
              /\ l[k].entry.vault = roster[l[k].entry.row].Vault

(***************************************************************************)
(* C10: validate_value returns (invalid, null, warning) for the sentinel,   *)
(* a non-numeric value or NaN; (invalid, the original number, warning) for  *)
(* a number strictly below the feature's min or strictly above its max; and *)
(* (valid, the number, no warning) otherwise, the bounds being valid.       *)
(***************************************************************************)
C10_Discarded(v) == ~IsFloat(v) \/ v = NaN \/ v = Num((-9999) * Scale)

C10_Outside(v, f) ==
  /\ f \in FeatureNames
  /\ \/ v.k = "neginf"
     \/ v.k = "posinf"
     \/ v.k = "num" /\ v.v < FEATURE_RANGES[f][1]
     \/ v.k = "num" /\ v.v > FEATURE_RANGES[f][2]

C10_ValidateContract ==
  vOut # Idle =>
    IF C10_Discarded(vIn.value)
      THEN ~vOut.is_valid /\ vOut.cleaned = None /\ vOut.warning # None
    ELSE IF C10_Outside(vIn.value, vIn.feature)
      THEN ~vOut.is_valid /\ vOut.cleaned = vIn.value /\ vOut.warning # None
    ELSE vOut.is_valid /\ vOut.cleaned = vIn.value /\ vOut.warning = None

\* validate(9.0, "WTW"): invalid, 9.0 retained, warning present
C10_Witness ==
  /\ vIn = [value |-> Num(900), feature |-> "WTW"]
  /\ vOut # Idle
  /\ ~vOut.is_valid /\ vOut.cleaned = Num(900) /\ vOut.warning # None

(***************************************************************************)
(* C11, C12: range validation and the shape ratio in the feature record.    *)
(***************************************************************************)
C11_Validated ==
  {"Age", "WTW", "ACD_internal", "ACV", "ACA_global", "Pupil_diameter", "TCRP_Km",
   "TCRP_Astigmatism", "SimK_steep", "CCT", "BAD_D", "AC_shape_ratio"}

\* C11: no feature record carries a non-null value that lies outside the
\* range of its feature: a value that fails the range check is null in the
\* record.
C11_NoValueOutsideRange ==
  (features # Idle /\ doc.parses) =>
    \A f \in C11_Validated :
      features[f] # None =>
        ~OutOfRange(features[f], FEATURE_RANGES[f][1], FEATURE_RANGES[f][2])

C12_AcdUnusable ==
  features.ACD_internal = None \/ ~FloatLt(Num(0), features.ACD_internal)

\* C12: the record of every scan file that parses has a null AC_shape_ratio
\* whenever its ACD_internal is absent, null, zero or negative, and the
\* computation of the ratio raises nothing: the function returns the record.
C12_ShapeRatioNull ==
  (features # Idle /\ doc.parses) =>
    /\ features # None
    /\ C12_AcdUnusable => features.AC_shape_ratio = None

\* a chamber depth of zero or below, retained by the range check, beside a
\* chamber volume
C12_Witness ==
  /\ features # Idle /\ doc.parses
  /\ features.ACD_internal # None /\ ~FloatLt(Num(0), features.ACD_internal)
  /\ features.ACV # None
  /\ features.AC_shape_ratio = None

(***************************************************************************)
(* C13, C14: the filename reports of the audit.                             *)
(***************************************************************************)
\* an XML file named by eight digits and its extension
C13_Standard(name) ==
  /\ Len(name) = 12 /\ IsXmlFile(name)
  /\ \A i \in 1..8 : IsDigit(name[i])

\* the numeric IDs present: the numbers of the files named by eight digits
C13_Ids == {ToInt(SubSeq(f.name, 1, 8)) : f \in {g \in xmlDir : C13_Standard(g.name)}}

\* C13: the missing-IDs report holds exactly the integers that lie between
\* two numeric IDs present and are no numeric ID present themselves; it is
\* empty when there is no numeric ID.
C13_MissingReport ==
  pc = "audited" =>
    files[Path.missing_xml].rows =
      {Pad(n, 8) : n \in UNION {{m \in a..b : m \notin C13_Ids} : a, b \in C13_Ids}}

\* IDs 1, 2, 4 and 5 present: the report is exactly {3}
C13_Witness ==
  /\ pc = "audited"
  /\ C13_Ids = {1, 2, 4, 5}
  /\ files[Path.missing_xml].rows = {Pad(3, 8)}

\* the number of leading digits of a name
C14_Leading(name) ==
  CHOOSE k \in 0..Len(name) :
    /\ \A i \in 1..k : IsDigit(name[i])
    /\ k < Len(name) => ~IsDigit(name[k + 1])

\* the XML files whose name leads with the number n
C14_Group(n) ==
  {f \in xmlDir : /\ IsXmlFile(f.name)
                  /\ C14_Leading(f.name) > 0
                  /\ ToInt(SubSeq(f.name, 1, C14_Leading(f.name))) = n}

C14_Identical(n) ==
  \A f, g \in C14_Group(n) : [f EXCEPT !.name = <<>>] = [g EXCEPT !.name = <<>>]

C14_Numbers ==
  {ToInt(SubSeq(f.name, 1, C14_Leading(f.name)))
   : f \in {g \in xmlDir : C14_Leading(g.name) > 0}}

\* C14: the duplicate report holds one row per file of every group of two or
\* more files that share their leading number, and no other row; the row's
\* GroupStatus is 'identical' exactly when all files of the group have one
\* content, and its Recommended_Delete is true exactly when the group is
\* identical and the file is not named by eight digits.
C14_DuplicateReport ==
  pc = "audited" =>
    /\ \A n \in C14_Numbers :
         Cardinality(C14_Group(n)) >= 2 =>
           \A f \in C14_Group(n) :
             {r \in files[Path.duplicate_xml].rows : r.File = f.name}
               = {[XML_ID |-> Pad(n, 8), File |-> f.name,
                   SHA256 |-> [parses |-> f.parses, id |-> f.id, measured |-> f.measured],
                   GroupStatus |-> IF C14_Identical(n) THEN "identical" ELSE "different",
                   IsStandardName |-> C13_Standard(f.name),
                   Recommended_Delete |-> C14_Identical(n) /\ ~C13_Standard(f.name)]}
    /\ \A r \in files[Path.duplicate_xml].rows :
         \E n \in C14_Numbers :
           /\ Cardinality(C14_Group(n)) >= 2
           /\ r.File \in {f.name : f \in C14_Group(n)}

\* 00000002.xml and a copy of the same content: one identical group, the
\* deletion recommended for the copy alone
C14_Witness ==
  /\ pc = "audited"
  /\ {[File |-> r.File, GroupStatus |-> r.GroupStatus, Delete |-> r.Recommended_Delete]
      : r \in files[Path.duplicate_xml].rows}
       = {[File |-> <<"0", "0", "0", "0", "0", "0", "0", "2", ".", "x", "m", "l">>, GroupStatus |-> "identical", Delete |-> FALSE],
          [File |-> <<"0", "0", "0", "0", "0", "0", "0", "2", "_", "c", "o", "p", "y", ".", "x", "m", "l">>, GroupStatus |-> "identical", Delete |-> TRUE]}

(***************************************************************************)
(* C15: the name variants under a second application.                       *)
(***************************************************************************)
\* C15: create_name_variations is idempotent: the variants of a variant of a
\* name are variants of the name.
C15_Idempotent ==
  (vIn.fn = "create_name_variations" /\ vIn.again /\ vOut # Idle) =>
    vOut.value \subseteq vIn.first.value

(***************************************************************************)
(* C18: normalize_dob on malformed text.                                    *)
(***************************************************************************)
\* C18: normalize_dob raises on no input text; what it returns is the empty
\* string or a date in the form YYYY-MM-DD.
C18_NeverRaisesAndDates ==
  (vIn.fn = "normalize_dob" /\ ~vIn.again /\ vOut # Idle) =>
    /\ vOut.k = "return"
    /\ vOut.value # <<>> => Len(vOut.value) = 10 /\ strptime(vOut.value).ok

(***************************************************************************)
(* C16: a scan and its roster row, end to end.                              *)
(***************************************************************************)
\* the features of the scan of Noah Gonzalez-Wooding, born 1999-05-02, right
\* eye, WTW 11.8, ACD 3.1, ACV 190, SimK steep 44.0
C16_Scan ==
  /\ features # Idle /\ doc.parses
  /\ features.Name = <<"G", "o", "n", "z", "a", "l", "e", "z", "-", "W", "o", "o", "d", "i", "n", "g", " ", "N", "o", "a", "h">>
  /\ features.DOB = <<"1", "9", "9", "9", "-", "0", "5", "-", "0", "2">> /\ features.Eye = <<"O", "D">>
  /\ features.WTW = Num(1180) /\ features.ACD_internal = Num(310)
  /\ features.ACV = Num(19000) /\ features.SimK_steep = Num(4400)

\* C16: the scan is linked to the roster row 'Gonzalez-Wooding, Noah' by the
\* exact strategy, and the merged row has Lens_Size 12.6, Vault 420 and
\* AC_shape_ratio 190 / 3.1 = 61.29.
C16_EndToEnd ==
  (C16_Scan /\ link # Idle) =>
    /\ link.k = "merged"
    /\ link.result.strategy = "exact"
    /\ link.row.Lens_Size = Num(1260) /\ link.row.Vault = Num(42000)
    /\ link.row.AC_shape_ratio = Num(6129)

(***************************************************************************)
(* C17: one roster entry per row of the linked tables.                      *)
(***************************************************************************)
\* the results of the cascade for a scan file on the index of the roster
C17_Cascade(f) ==
  MatchCascade(load_csv_data(roster).lookup, full_name(f.id),
               normalize_dob(strip(f.id.dob)), upper(f.id.eye))

\* the outcome cells of the row r are those of the one roster row behind the
\* cascade result c, or blank where the eye differs
C17_FromOneEntry(r, c) ==
  /\ c.matched
  /\ c.entry = DataEntry(roster[c.entry.row], c.entry.row)
  /\ <<r.Lens_Size, r.Vault>> \in {<<c.entry.lens_size, c.entry.vault>>, <<Empty, Empty>>}

C19_NoAbort == link # Idle => link.k \in {"skipped", "linked", "merged"}

(***************************************************************************)
(* C20: collisions in the roster index.                                     *)
(***************************************************************************)
\* the keys that row i of the roster generates
C20_Keys(i) ==
  {<<v, normalize_dob(roster[i].DOB), upper(strip(str(roster[i].Eye)))>>
   : v \in create_name_variations(normalize_name(roster[i].NAME))}

\* every key of the index is generated by a row, every generated key is in
\* the index, and a key maps to the entry of the last row that generates it
C20_Holds(index, keys, entries) ==
  /\ DOMAIN index = UNION {keys[i] : i \in DOMAIN keys}
  /\ \A key \in DOMAIN index :
       index[key].entry
         = entries[CHOOSE i \in DOMAIN keys :
                     key \in keys[i] /\ \A j \in DOMAIN keys : key \in keys[j] => j <= i]

\* C20: after the index is built, every key maps to the entry of the last
\* roster row that generates it, in the index of either loader.
C20_LastWriteWins ==
  /\ (lookup # Idle /\ lookup.ok) =>
       C20_Holds(lookup.lookup, [i \in DOMAIN roster |-> C20_Keys(i)],
                 [i \in DOMAIN roster |-> DataEntry(roster[i], i)])
  /\ (lookupSeq # Idle /\ lookupSeq.ok) =>
       C20_Holds(lookupSeq.lookup, [i \in DOMAIN roster |-> C20_Keys(i)],
                 [i \in DOMAIN roster |-> DataEntrySeq(roster[i], i)])

\* two rows generate the key ('Lee Ann', 1999-05-02, OD); it maps to the
\* second row
C20_Witness ==
  /\ lookup # Idle /\ lookup.ok
  /\ Len(roster) = 2
  /\ <<<<"L", "e", "e", " ", "A", "n", "n">>, <<"1", "9", "9", "9", "-", "0", "5", "-", "0", "2">>, <<"O", "D">>>>
       \in C20_Keys(1) \cap C20_Keys(2)
  /\ DataEntry(roster[1], 1).vault # DataEntry(roster[2], 2).vault
  /\ lookup.lookup[<<<<"L", "e", "e", " ", "A", "n", "n">>, <<"1", "9", "9", "9", "-", "0", "5", "-", "0", "2">>, <<"O", "D">>>>].entry.row = 2

(***************************************************************************)
(* C21: feature extraction is first-match and non-overwriting: a clinical   *)
(* feature of the record is the validated value of the first entry of the   *)
(* scan file that sets it (the first entry under its key with a text that   *)
(* is not blank, among the sections the feature is read from); no later     *)
(* entry with the same key, in the same or a later section, replaces it.    *)
(***************************************************************************)
C21_FirstMatch ==
  LET Flat(secs) ==
        LET F[k \in 0..Len(secs)] == IF k = 0 THEN <<>> ELSE F[k-1] \o secs[k].entries
        IN F[Len(secs)]
      IsTest(sec) ==
        /\ contains(sec.name, <<"T", "e", "s", "t", " ", "D", "a", "t", "a">>)
        /\ contains(sec.name, <<"O", "D">>) \/ contains(sec.name, <<"O", "S">>)
      Setting(es, key) == {i \in DOMAIN es : es[i].key = key /\ es[i].num # Empty}
      First(es, key) ==
        IF Setting(es, key) = {} THEN None
        ELSE validate_value(es[CHOOSE i \in Setting(es, key) :
                                 \A j \in Setting(es, key) : i <= j].num,
                            CASE key = "Cornea Dia Horizontal" -> "WTW"
                              [] key = "SimK steep D" -> "SimK_steep"
                              [] key = "ACV" -> "ACV"
                              [] key = "ACD (Int.) [mm]" -> "ACD_internal").cleaned
  IN (doc # Idle /\ features # Idle /\ features # None) =>
       /\ features.WTW = First(Flat(SelectSeq(doc.sections, IsTest)), "Cornea Dia Horizontal")
       /\ features.SimK_steep = First(Flat(SelectSeq(doc.sections, IsTest)), "SimK steep D")
       /\ features.ACV = First(Flat(doc.sections), "ACV")
       /\ features.ACD_internal = First(Flat(doc.sections), "ACD (Int.) [mm]")

(***************************************************************************)
(* C22: the steps of main run in the fixed order Excel conversion, INI      *)
(* processing (only with ZIP/INI inputs), preprocessing audit, preprocessing*)
(* gates, matching, feature extraction, post-extraction audit, feature      *)
(* gates, summary; a step is started only after the preflight and every     *)
(* earlier started step succeeded and every earlier gate passed; on the     *)
(* first failure the run exits with code 1 and no later step is started.    *)
(***************************************************************************)
C22_Order ==
  <<"check_files", "excel_to_csv", "ini_to_xml", "audit_pre", "gates_pre",
    "match", "extract", "audit_post", "gates_post", "summary">>

C22_Position(step) == CHOOSE i \in DOMAIN C22_Order : C22_Order[i] = step

C22_StartedInOrder ==
  /\ started \subseteq {C22_Order[i] : i \in DOMAIN C22_Order}
  /\ "ini_to_xml" \in started => images
  /\ \A i \in DOMAIN C22_Order : C22_Order[i] \in started =>
        \A j \in 1..(i - 1) :
          C22_Order[j] \in started \/ (C22_Order[j] = "ini_to_xml" /\ ~images)
  /\ halt = Idle /\ pc # "check_files" =>
        /\ pc \in {C22_Order[i] : i \in DOMAIN C22_Order}
        /\ started = {C22_Order[j] : j \in 1..(C22_Position(pc) - 1)}
                        \ (IF images THEN {} ELSE {"ini_to_xml"})
  /\ halt # Idle =>
        /\ halt.at \in started
        /\ \A step \in started : C22_Position(step) <= C22_Position(halt.at)

C22_FixedOrderExitOne ==
  /\ C22_StartedInOrder
  /\ halt # Idle => (halt.failed <=> halt.code = 1)
  /\ halt # Idle /\ ~halt.failed => halt.code = 0 /\ halt.at = "summary"

(***************************************************************************)
(* C23: the cascade of extract_all_features uses the same logic as the      *)
(* cascade of match_xml_to_csv: for a scan identity and two roster indexes  *)
(* with the same keys, both link the scan to the same roster row, or both   *)
(* report no match.                                                         *)
(***************************************************************************)
C23_SameLink ==
  (/\ match1 # Idle /\ link # Idle
   /\ lookup # Idle /\ lookup.ok /\ lookupSeq # Idle /\ lookupSeq.ok
   /\ DOMAIN lookup.lookup = DOMAIN lookupSeq.lookup) =>
    \/ ~match1.matched /\ link.k \in {"skipped", "linked"}
                       /\ (link.k = "linked" => ~link.result.matched)
    \/ /\ match1.matched /\ link.k = "linked" /\ link.result.matched
       /\ link.result.entry.row = match1.entry.row

(***************************************************************************)
(* C24: whatever report files earlier runs left in data/processed, a run    *)
(* whose feature extraction finds no incomplete case (no training row with  *)
(* both outcomes that lacks a required feature) is not halted by            *)
(* run_feature_gates.                                                       *)
(***************************************************************************)
C24_NoIncompleteCase ==
  /\ extractRun # Idle /\ extractRun.loaded /\ ~extractRun.raised
  /\ \A r \in extractRun.all_features :
        (r.Vault # None /\ r.Lens_Size # None) => r.features

C24_StaleReportDoesNotHalt ==
  C24_NoIncompleteCase => ~(halt # Idle /\ halt.at = "gates_post" /\ halt.code # 0)

(***************************************************************************)
(* C25: following the audit's deletion recommendations never loses a scan:  *)
(* in every duplicate group the report classifies as identical, at least    *)
(* one file of the group has Recommended_Delete = false, also when no file  *)
(* of the group has a standard 8-digit name.                                *)
(***************************************************************************)
C25_KeepsOneOfEachGroup ==
  files # Idle /\ files[Path.duplicate_xml].fresh =>
    \A r \in files[Path.duplicate_xml].rows :
      r.GroupStatus = "identical" =>
        \E q \in files[Path.duplicate_xml].rows :
          q.XML_ID = r.XML_ID /\ ~q.Recommended_Delete

(***************************************************************************)
(* C26: no output row attributes to a scan an outcome taken from the other  *)
(* eye: a row written for a scan that was linked to a roster entry of       *)
(* another eye carries neither that entry's lens size nor its vault.  Every *)
(* outcome cell of a matched row comes from the linked entry, so the row    *)
(* of such a scan must hold no lens size and no vault in any column.        *)
(***************************************************************************)
C26_NoOtherEyeOutcome ==
  matchRun # Idle =>
    \A row \in matchRun.matched_results :
      ~row.Match_Note.eye_match =>
        /\ row.Lens_Size = Empty /\ row.Vault = Empty
        /\ row.Original_Lens_Size = NaN /\ row.Original_Vault = NaN
        /\ row.Exchanged_Lens_Size = NaN /\ row.Exchanged_Vault = NaN

(***************************************************************************)
(* C27: the date of birth always constrains a link: match_xml_to_csv never  *)
(* links a scan to a roster entry whose normalized date of birth differs    *)
(* from the scan's normalized date of birth by more than 7 days.            *)
(***************************************************************************)
C27_Within(dob, csv_dob) ==
  \/ dob = csv_dob
  \/ /\ dob # Raise /\ strptime(dob).ok /\ strptime(csv_dob).ok
     /\ DobDiff(strptime(dob), strptime(csv_dob)) <= DOB_TOLERANCE_DAYS

C27_DobConstrainsLink ==
  (scanId # Idle /\ match1 # Idle /\ match1.matched) =>
    C27_Within(normalize_dob(strip(scanId.dob)), match1.key[2])

(***************************************************************************)
(* C28: normalize_dob is the identity on well-formed YYYY-MM-DD strings     *)
(* (any digits) and idempotent on every input; the year repair changes only *)
(* inputs whose year is a 3-digit year prefixed with 0, which are left out  *)
(* of the identity.                                                         *)
(***************************************************************************)
C28_WellFormed(d) ==
  /\ Len(d) = 10 /\ d[5] = "-" /\ d[8] = "-"
  /\ \A i \in {1, 2, 3, 4, 6, 7, 9, 10} : IsDigit(d[i])

C28_IdentityAndIdempotent ==
  (vIn # Idle /\ vOut # Idle /\ vIn.fn = "normalize_dob") =>
    /\ (C28_WellFormed(vIn.arg) /\ vIn.arg[1] # "0") =>
          vOut = [k |-> "return", value |-> vIn.arg]
    /\ vIn.again => vOut = vIn.first

(***************************************************************************)
(* C29: when the audit runs with a matched table present, the unmatched     *)
(* report it writes is exactly the set of scan files on disk that do not    *)
(* appear in the matched table, and the failed-extraction report is exactly *)
(* the set of scan files on disk that do not appear in the training table,  *)
(* also when a table lists files that are no longer on disk.  The state     *)
(* after an audit is the one in which the gates are about to run.           *)
(***************************************************************************)
C29_OnDisk == {f.name : f \in {g \in xmlDir : IsXmlFile(g.name)}}

C29_Listed(path) == {r.XML_File : r \in files[path].rows}

C29_ReportsAreDifferences ==
  pc \in {"gates_pre", "gates_post"} =>
    /\ files[Path.matched].exists =>
          /\ files[Path.unmatched].fresh
          /\ files[Path.unmatched].rows = C29_OnDisk \ C29_Listed(Path.matched)
    /\ files[Path.training].exists =>
          /\ files[Path.failed].fresh
          /\ files[Path.failed].rows = C29_OnDisk \ C29_Listed(Path.training)

(***************************************************************************)
(* C30: the auditor, the matcher and the feature extractor work on the same *)
(* set of scan files: a file name of the directory is counted as a scan by  *)
(* the audit (get_xml_count) exactly when match_xml_to_csv iterates it and  *)
(* exactly when extract_all_features iterates it.                           *)
(***************************************************************************)
C30_Counted == {f.name : f \in {g \in xmlDir : IsXmlFile(g.name)}}

C30_SameScanSet ==
  /\ (matchRun # Idle /\ matchRun.loaded) => matchRun.xml_files = C30_Counted
  /\ (extractRun # Idle /\ extractRun.loaded) => extractRun.xml_files = C30_Counted

=============================================================================
